---- MODULE Spec2Model ----
(***************************************************************************)
(* Model of the ADIv5 transport (src/target/adiv5.c) and of the EFM32      *)
(* driver (src/target/efm32.c) of the Black Magic Probe firmware.          *)
(*                                                                         *)
(* 32-bit quantities are pairs <<hi, lo>> of 16-bit halves, so that every  *)
(* uint32_t value, 0xFFFFFFFF included, is represented exactly.            *)
(***************************************************************************)
EXTENDS Integers, Sequences, FiniteSets, TLC

\* ------------------------------------------------------------------------
\* uint32_t arithmetic
\* ------------------------------------------------------------------------
Half == 256 * 256

W(hi, lo) == <<hi, lo>>

Hi(w) == w[1]

Lo(w) == w[2]

ZeroW == W(0, 0)

AllOnesW == W(\hFFFF, \hFFFF)

RECURSIVE BitAnd(_, _)
BitAnd(a, b) ==
    IF a = 0 \/ b = 0 THEN 0
    ELSE (a % 2) * (b % 2) + 2 * BitAnd(a \div 2, b \div 2)

RECURSIVE BitOr(_, _)
BitOr(a, b) ==
    IF a = 0 THEN b
    ELSE IF b = 0 THEN a
    ELSE (IF a % 2 = 1 \/ b % 2 = 1 THEN 1 ELSE 0) + 2 * BitOr(a \div 2, b \div 2)

RECURSIVE BitXor(_, _)
BitXor(a, b) ==
    IF a = 0 THEN b
    ELSE IF b = 0 THEN a
    ELSE ((a + b) % 2) + 2 * BitXor(a \div 2, b \div 2)

U32And(a, b) == W(BitAnd(Hi(a), Hi(b)), BitAnd(Lo(a), Lo(b)))

U32Or(a, b) == W(BitOr(Hi(a), Hi(b)), BitOr(Lo(a), Lo(b)))

U32Xor(a, b) == W(BitXor(Hi(a), Hi(b)), BitXor(Lo(a), Lo(b)))

\* a + n modulo 2^32, for 0 <= n < 65536
U32Add(a, n) ==
    LET s == Lo(a) + n
    IN  W((Hi(a) + s \div Half) % Half, s % Half)

\* ------------------------------------------------------------------------
\* Bounds of the model
\* ------------------------------------------------------------------------
\* apsel values below this bound may answer with a non-zero IDR
MaxPresentAps == 2

\* polls of CTRL/STAT that find a wait loop's condition still true
MaxPolls == 1

\* ------------------------------------------------------------------------
\* Program constants
\* ------------------------------------------------------------------------
\* for (int i = 0; (i < 256) && (void_aps < 8); i++)
MaxApsel == 256

MaxVoidAps == 8

\* memset(&tmpap, 0, sizeof(tmpap)) ... memcpy(ap, &tmpap, sizeof(*ap))
NewApRefcnt == 0

\* calloc'ed by the scan routine that calls adiv5_dp_init
NewDpRefcnt == 0

EFM32_AAP_IDR == W(\h06E6, \h0001)

EFM32_APP_IDR_MASK == W(\h0FFF, \hFF0F)

\* ADIV5_AP_BASE_PRESENT, bit 0 of BASE
ADIV5_AP_BASE_PRESENT == W(0, 1)

\* ------------------------------------------------------------------------
\* Inputs: what the target answers
\* ------------------------------------------------------------------------
\* the apsel values whose AP the model keeps: one more than may answer, so
\* that a target can have a gap between two APs
Apsels == 0 .. MaxPresentAps

\* the target's APs are at consecutive apsel values from 0
HwContiguous == 0 .. (MaxPresentAps - 1)

\* the target has an AP at apsel 0 and one after a gap
HwGap == {0, MaxPresentAps}

\* IDR: absent, an AHB MEM-AP, an EFM32 AAP (revision 1)
IdrValues == {ZeroW, W(\h2477, \h0011), W(\h16E6, \h0001)}

\* BASE: zero, "no debug entries", two present ROM tables, a non-present value
BaseValues == {ZeroW, AllOnesW, W(\hE00F, \hF003), W(\hE00F, \hE003),
               W(\hE00F, \hE002)}

\* dp->idcode as set by the scan: low 12 bits 0x477 or not
IdcodeValues == {W(\h0BA0, \h1477), W(\h0BA0, \h1000)}

VARIABLES
    pc,          \* position of adiv5_dp_init
    dpRefcnt,    \* dp->refcnt
    dpFreed,     \* free(dp) has been called
    idcode,      \* dp->idcode
    apState,     \* per apsel: "none", "live" (allocated), "freed"
    apRefcnt,    \* ap->refcnt
    apIdr,       \* ap->idr
    apBase,      \* ap->base
    apDisc,      \* what discovery made of the AP
    tgtRef,      \* per AP: targets holding the AP in priv with a reference
    i,           \* loop variable of the AP enumeration
    void_aps,
    last_base,
    probed,
    ub,          \* a freed AP has been used
    ev,          \* the last operation and its result
    hw,          \* the target: the apsel values with an AP, the DPIDR value
    ctrlstat,    \* the local ctrlstat of adiv5_dp_init
    expired,     \* platform_timeout_is_expired(&timeout)
    dp_idcode,   \* dp->dp_idcode
    targetid,    \* dp->targetid
    dplog        \* the DP accesses of adiv5_dp_init before the enumeration

\* the state of the power-up and reset sequence
buVars == <<hw, ctrlstat, expired, dp_idcode, targetid, dplog>>

dpVars == <<pc, dpRefcnt, dpFreed, idcode, apState, apRefcnt, apIdr, apBase,
            apDisc, tgtRef, i, void_aps, last_base, probed, ub, ev, buVars>>

Ev(op, a, res) == [op |-> op, ap |-> a, res |-> res]

LiveAps == {a \in Apsels : apState[a] = "live"}

\* ------------------------------------------------------------------------
\* Reference counting
\* ------------------------------------------------------------------------
\* dp->refcnt++
adiv5_dp_ref(refcnt) == refcnt + 1

\* ap->refcnt++
adiv5_ap_ref(refcnt) == refcnt + 1

\* --(dp->refcnt): the new count
DpUnrefCount(refcnt) == refcnt - 1

\* if (--(dp->refcnt) == 0) free(dp)
DpUnrefFrees(refcnt) == DpUnrefCount(refcnt) = 0

\* --(ap->refcnt): the new count
ApUnrefCount(refcnt) == refcnt - 1

ApUnrefFrees_AtOrBelowZero(refcnt) == ApUnrefCount(refcnt) <= 0

\* if (--(ap->refcnt) == 0) { adiv5_dp_unref(ap->dp); free(ap); }
ApUnrefFrees(refcnt) == ApUnrefCount(refcnt) = 0

\* adiv5_dp_unref(dp) as a state change
adiv5_dp_unref ==
    /\ dpRefcnt' = DpUnrefCount(dpRefcnt)
    /\ dpFreed' = (dpFreed \/ DpUnrefFrees(dpRefcnt))

\* adiv5_ap_unref(ap) on the allocated AP a
adiv5_ap_unref(a) ==
    /\ apRefcnt' = [apRefcnt EXCEPT ![a] = ApUnrefCount(apRefcnt[a])]
    /\ IF ApUnrefFrees(apRefcnt[a])
       THEN /\ adiv5_dp_unref
            /\ apState' = [apState EXCEPT ![a] = "freed"]
       ELSE UNCHANGED <<dpRefcnt, dpFreed, apState>>

\* ------------------------------------------------------------------------
\* adiv5_new_ap
\* ------------------------------------------------------------------------
NewApResult_NoIdrCheck(idr, mallocOk) ==
    IF ~mallocOk THEN "null_malloc" ELSE "ap"

\* if (!tmpap.idr) return NULL;  ap = malloc(...); if (!ap) return NULL;
NewApResult(idr, mallocOk) ==
    IF idr = ZeroW THEN "null_idr"
    ELSE IF ~mallocOk THEN "null_malloc"
    ELSE "ap"

NewApDpRefcnt_NoRef(refcnt, idr, mallocOk) == refcnt

\* dp->refcnt after adiv5_new_ap
NewApDpRefcnt(refcnt, idr, mallocOk) ==
    IF NewApResult(idr, mallocOk) = "ap" THEN adiv5_dp_ref(refcnt) ELSE refcnt

\* ------------------------------------------------------------------------
\* adiv5_dp_init
\* ------------------------------------------------------------------------
DpInitVars == <<i, void_aps, last_base, probed>>

\* adiv5_dp_ref(dp) at entry
DpInitEnter ==
    /\ pc = "idle"
    /\ dpRefcnt' = adiv5_dp_ref(dpRefcnt)
    /\ pc' = "bringup"
    /\ ev' = Ev("dp_init", 0, "enter")
    /\ UNCHANGED <<dpFreed, idcode, buVars, apState, apRefcnt, apIdr, apBase, apDisc,
                   tgtRef, ub, DpInitVars>>

\* DP registers and the CTRL/STAT, ABORT and DPIDR fields (ADIv5)
ADIV5_DP_IDCODE == \h000

ADIV5_DP_ABORT == \h000

ADIV5_DP_CTRLSTAT == \h004

ADIV5_DP_SELECT == \h008

ADIV5_DP_ABORT_DAPABORT == W(0, 1)

ADIV5_DP_CTRLSTAT_CSYSPWRUPACK == W(\h8000, 0)

ADIV5_DP_CTRLSTAT_CSYSPWRUPREQ == W(\h4000, 0)

ADIV5_DP_CTRLSTAT_CDBGPWRUPACK == W(\h2000, 0)

ADIV5_DP_CTRLSTAT_CDBGPWRUPREQ == W(\h1000, 0)

ADIV5_DP_CTRLSTAT_CDBGRSTACK == W(\h0800, 0)

ADIV5_DP_CTRLSTAT_CDBGRSTREQ == W(\h0400, 0)

ADIV5_DP_VERSION_MASK == W(0, \hF000)

ADIV5_DPv2 == W(0, \h2000)

ADIV5_DP_BANK0 == ZeroW

ADIV5_DP_BANK2 == W(0, 2)

\* ~w
U32Not(w) == W(\hFFFF - Hi(w), \hFFFF - Lo(w))

\* what a CTRL/STAT read may return: nothing acknowledged, the system
\* power-up alone, both power-ups, both power-ups and the debug reset
CtrlstatReads ==
    {ZeroW,
     ADIV5_DP_CTRLSTAT_CSYSPWRUPACK,
     U32Or(ADIV5_DP_CTRLSTAT_CSYSPWRUPACK, ADIV5_DP_CTRLSTAT_CDBGPWRUPACK),
     U32Or(U32Or(ADIV5_DP_CTRLSTAT_CSYSPWRUPACK, ADIV5_DP_CTRLSTAT_CDBGPWRUPACK),
           ADIV5_DP_CTRLSTAT_CDBGRSTACK)}

\* DPIDR of a DPv1 and of a DPv2
DpidrValues == {W(\h2BA0, \h1477), W(\h6BA0, \h2477)}

TargetidValue == W(\h0001, \h0041)

DpRd(reg, value, fault) == [op |-> "read", reg |-> reg, val |-> value, fault |-> fault]

DpWr(reg, value) == [op |-> "write", reg |-> reg, val |-> value, fault |-> FALSE]

\* the CTRL/STAT reads since the last write
RECURSIVE PollsSince(_)
PollsSince(l) ==
    IF l = <<>> \/ l[Len(l)].op # "read" THEN 0
    ELSE 1 + PollsSince(SubSeq(l, 1, Len(l) - 1))

PowerUpReq ==
    U32Or(ADIV5_DP_CTRLSTAT_CSYSPWRUPREQ, ADIV5_DP_CTRLSTAT_CDBGPWRUPREQ)

PowerUpAck_SysOnly == ADIV5_DP_CTRLSTAT_CSYSPWRUPACK

PowerUpAck ==
    U32Or(ADIV5_DP_CTRLSTAT_CSYSPWRUPACK, ADIV5_DP_CTRLSTAT_CDBGPWRUPACK)

\* the condition of the wait at lines 633-635
PowerUpPending(v) == U32And(v, PowerUpAck) # PowerUpAck

AbortOnTimeout_Never(timeout) == FALSE

\* if (e.type): the TRY_CATCH caught EXCEPTION_TIMEOUT
AbortOnTimeout(timeout) == timeout

\* TRY_CATCH { ctrlstat = adiv5_dp_read(CTRLSTAT) }; on a timeout
\* adiv5_dp_abort(DAPABORT) and the read once more
DpInitFirstRead ==
    /\ pc = "bringup"
    /\ \E timeout \in BOOLEAN, v1 \in CtrlstatReads, v2 \in CtrlstatReads :
        LET got   == IF timeout THEN ZeroW ELSE v1
            first == DpRd(ADIV5_DP_CTRLSTAT, got, timeout)
        IN  IF AbortOnTimeout(timeout)
            THEN /\ ctrlstat' = v2
                 /\ dplog' = dplog \o
                      <<first,
                        DpWr(ADIV5_DP_ABORT, ADIV5_DP_ABORT_DAPABORT),
                        DpRd(ADIV5_DP_CTRLSTAT, v2, FALSE)>>
                 /\ ev' = Ev("dp_init", 0, "abort")
            ELSE /\ ctrlstat' = got
                 /\ dplog' = Append(dplog, first)
                 /\ ev' = Ev("dp_init", 0, "ctrlstat")
    /\ pc' = "pwrreq"
    /\ UNCHANGED <<dpRefcnt, dpFreed, idcode, apState, apRefcnt, apIdr, apBase,
                   apDisc, tgtRef, ub, DpInitVars, hw, expired, dp_idcode,
                   targetid>>

\* adiv5_dp_write(CTRLSTAT, ctrlstat |= CSYSPWRUPREQ | CDBGPWRUPREQ)
DpInitPowerUp ==
    /\ pc = "pwrreq"
    /\ ctrlstat' = U32Or(ctrlstat, PowerUpReq)
    /\ dplog' = Append(dplog, DpWr(ADIV5_DP_CTRLSTAT, ctrlstat'))
    /\ pc' = "pwrwait"
    /\ ev' = Ev("dp_init", 0, "pwrreq")
    /\ UNCHANGED <<dpRefcnt, dpFreed, idcode, apState, apRefcnt, apIdr, apBase,
                   apDisc, tgtRef, ub, DpInitVars, hw, expired, dp_idcode,
                   targetid>>

\* one pass of while ((ctrlstat = read(CTRLSTAT)) & acks) != acks)
DpInitPowerWait ==
    /\ pc = "pwrwait"
    /\ \E v \in CtrlstatReads :
        /\ (PowerUpPending(v) => PollsSince(dplog) < MaxPolls)
        /\ ctrlstat' = v
        /\ dplog' = Append(dplog, DpRd(ADIV5_DP_CTRLSTAT, v, FALSE))
        /\ pc' = IF PowerUpPending(v) THEN "pwrwait" ELSE "rstreq"
    /\ ev' = Ev("dp_init", 0, "pwrwait")
    /\ UNCHANGED <<dpRefcnt, dpFreed, idcode, apState, apRefcnt, apIdr, apBase,
                   apDisc, tgtRef, ub, DpInitVars, hw, expired, dp_idcode,
                   targetid>>

\* adiv5_dp_write(CTRLSTAT, ctrlstat |= CDBGRSTREQ);
\* platform_timeout_set(&timeout, 200)
DpInitResetReq ==
    /\ pc = "rstreq"
    /\ ctrlstat' = U32Or(ctrlstat, ADIV5_DP_CTRLSTAT_CDBGRSTREQ)
    /\ dplog' = Append(dplog, DpWr(ADIV5_DP_CTRLSTAT, ctrlstat'))
    /\ expired' = FALSE
    /\ pc' = "rstwait"
    /\ ev' = Ev("dp_init", 0, "rstreq")
    /\ UNCHANGED <<dpRefcnt, dpFreed, idcode, apState, apRefcnt, apIdr, apBase,
                   apDisc, tgtRef, ub, DpInitVars, hw, dp_idcode, targetid>>

\* the 200 ms of the running timeout pass
TimeoutExpires ==
    /\ pc \in {"rstwait", "relwait"}
    /\ ~expired
    /\ expired' = TRUE
    /\ UNCHANGED <<pc, dpRefcnt, dpFreed, idcode, apState, apRefcnt, apIdr,
                   apBase, apDisc, tgtRef, ub, ev, DpInitVars, hw, ctrlstat,
                   dp_idcode, targetid, dplog>>

ResetWaitContinues_NoDeadline(exp, v) ==
    U32And(v, ADIV5_DP_CTRLSTAT_CDBGRSTACK) = ZeroW

\* !expired && !((ctrlstat = read(CTRLSTAT)) & CDBGRSTACK)
ResetWaitContinues(exp, v) ==
    ~exp /\ U32And(v, ADIV5_DP_CTRLSTAT_CDBGRSTACK) = ZeroW

\* one evaluation of the condition of the wait at lines 650-652; the read
\* is not made once the timeout has expired
DpInitResetWait ==
    /\ pc = "rstwait"
    /\ \E v \in CtrlstatReads :
        /\ (ResetWaitContinues(expired, v) => PollsSince(dplog) < MaxPolls)
        /\ IF expired
           THEN UNCHANGED <<ctrlstat, dplog>>
           ELSE /\ ctrlstat' = v
                /\ dplog' = Append(dplog, DpRd(ADIV5_DP_CTRLSTAT, v, FALSE))
        /\ pc' = IF ResetWaitContinues(expired, v) THEN "rstwait" ELSE "rstrel"
    /\ ev' = Ev("dp_init", 0, "rstwait")
    /\ UNCHANGED <<dpRefcnt, dpFreed, idcode, apState, apRefcnt, apIdr, apBase,
                   apDisc, tgtRef, ub, DpInitVars, hw, expired, dp_idcode,
                   targetid>>

ResetReleaseValue_KeepReq(cs) == cs

\* ctrlstat &= ~CDBGRSTREQ
ResetReleaseValue(cs) == U32And(cs, U32Not(ADIV5_DP_CTRLSTAT_CDBGRSTREQ))

\* adiv5_dp_write(CTRLSTAT, ctrlstat &= ~CDBGRSTREQ);
\* platform_timeout_set(&timeout, 200)
DpInitResetRelease ==
    /\ pc = "rstrel"
    /\ ctrlstat' = ResetReleaseValue(ctrlstat)
    /\ dplog' = Append(dplog, DpWr(ADIV5_DP_CTRLSTAT, ctrlstat'))
    /\ expired' = FALSE
    /\ pc' = "relwait"
    /\ ev' = Ev("dp_init", 0, "rstrel")
    /\ UNCHANGED <<dpRefcnt, dpFreed, idcode, apState, apRefcnt, apIdr, apBase,
                   apDisc, tgtRef, ub, DpInitVars, hw, dp_idcode, targetid>>

\* !expired && (read(CTRLSTAT) & CDBGRSTACK)
ReleaseWaitContinues(exp, v) ==
    ~exp /\ U32And(v, ADIV5_DP_CTRLSTAT_CDBGRSTACK) # ZeroW

\* one evaluation of the condition of the wait at lines 660-662
DpInitReleaseWait ==
    /\ pc = "relwait"
    /\ \E v \in CtrlstatReads :
        /\ (ReleaseWaitContinues(expired, v) => PollsSince(dplog) < MaxPolls)
        /\ IF expired
           THEN UNCHANGED dplog
           ELSE dplog' = Append(dplog, DpRd(ADIV5_DP_CTRLSTAT, v, FALSE))
        /\ pc' = IF ReleaseWaitContinues(expired, v) THEN "relwait" ELSE "dpidr"
    /\ ev' = Ev("dp_init", 0, "relwait")
    /\ UNCHANGED <<dpRefcnt, dpFreed, idcode, apState, apRefcnt, apIdr, apBase,
                   apDisc, tgtRef, ub, DpInitVars, hw, ctrlstat, expired,
                   dp_idcode, targetid>>

\* (dp->dp_idcode & ADIV5_DP_VERSION_MASK) == ADIV5_DPv2
IsDPv2(id) == U32And(id, ADIV5_DP_VERSION_MASK) = ADIV5_DPv2

\* dp->dp_idcode = read(IDCODE); on a DPv2 the TARGETID read in bank 2
DpInitIdcode ==
    /\ pc = "dpidr"
    /\ dp_idcode' = hw.dpidr
    /\ IF IsDPv2(hw.dpidr)
       THEN /\ targetid' = TargetidValue
            /\ dplog' = dplog \o <<DpRd(ADIV5_DP_IDCODE, hw.dpidr, FALSE),
                                   DpWr(ADIV5_DP_SELECT, ADIV5_DP_BANK2),
                                   DpRd(ADIV5_DP_CTRLSTAT, TargetidValue, FALSE),
                                   DpWr(ADIV5_DP_SELECT, ADIV5_DP_BANK0)>>
       ELSE /\ dplog' = Append(dplog, DpRd(ADIV5_DP_IDCODE, hw.dpidr, FALSE))
            /\ UNCHANGED targetid
    /\ pc' = "enum"
    /\ ev' = Ev("dp_init", 0, "dpidr")
    /\ UNCHANGED <<dpRefcnt, dpFreed, idcode, apState, apRefcnt, apIdr, apBase,
                   apDisc, tgtRef, ub, DpInitVars, hw, ctrlstat, expired>>

\* uint32_t last_base = 0; int void_aps = 0; int i = 0.  ctrlstat and the
\* timeout are not read again and the record of the DP accesses ends here.
EnumBegin ==
    /\ pc = "enum"
    /\ i' = 0
    /\ void_aps' = 0
    /\ last_base' = ZeroW
    /\ probed' = FALSE
    /\ ctrlstat' = ZeroW
    /\ expired' = FALSE
    /\ dplog' = <<>>
    /\ pc' = "loop"
    /\ ev' = Ev("dp_init", 0, "bringup")
    /\ UNCHANGED <<dpRefcnt, dpFreed, idcode, apState, apRefcnt, apIdr, apBase,
                   apDisc, tgtRef, ub, hw, dp_idcode, targetid>>

\* the loop condition
EnumContinues == i < MaxApsel /\ void_aps < MaxVoidAps

\* if (ap->base == last_base) return;
IsDuplicateBase(base, last) == base = last

\* one pass through "ap = adiv5_new_ap(dp, i)" up to the duplicate-BASE check
EnumNewAp ==
    /\ pc = "loop"
    /\ EnumContinues
    /\ \E idr \in IdrValues, base \in BaseValues, mallocOk \in BOOLEAN :
        /\ (i \notin hw.aps => idr = ZeroW)
        /\ LET r == NewApResult(idr, mallocOk) IN
           /\ dpRefcnt' = NewApDpRefcnt(dpRefcnt, idr, mallocOk)
           /\ ev' = Ev("new_ap", i, r)
           /\ IF r # "ap"
              THEN /\ void_aps' = void_aps + 1
                   /\ IF i = 0
                      THEN pc' = "returned" /\ i' = i
                      ELSE pc' = "loop" /\ i' = i + 1
                   /\ UNCHANGED <<apState, apRefcnt, apIdr, apBase, last_base>>
              ELSE /\ apState' = [apState EXCEPT ![i] = "live"]
                   /\ apRefcnt' = [apRefcnt EXCEPT ![i] = NewApRefcnt]
                   /\ apIdr' = [apIdr EXCEPT ![i] = idr]
                   /\ apBase' = [apBase EXCEPT ![i] = base]
                   /\ IF IsDuplicateBase(base, last_base)
                      THEN pc' = "returned" /\ UNCHANGED last_base
                      ELSE pc' = "probes" /\ last_base' = base
                   /\ UNCHANGED <<void_aps, i>>
    /\ UNCHANGED <<dpFreed, idcode, buVars, apDisc, tgtRef, probed, ub>>

\* (ap->idr & EFM32_APP_IDR_MASK) == EFM32_AAP_IDR
IsEfm32Aap(idr) == U32And(idr, EFM32_APP_IDR_MASK) = EFM32_AAP_IDR

\* kinetis_mdm_probe, nrf51_mdm_probe (external: may create a target that
\* takes a reference) and efm32_aap_probe
EnumProbes ==
    /\ pc = "probes"
    /\ \E ext \in 0 .. 1 :
        LET aap == IF IsEfm32Aap(apIdr[i]) THEN 1 ELSE 0
            r0  == IF ext = 1 THEN adiv5_ap_ref(apRefcnt[i]) ELSE apRefcnt[i]
            r1  == IF aap = 1 THEN adiv5_ap_ref(r0) ELSE r0
        IN  /\ apRefcnt' = [apRefcnt EXCEPT ![i] = r1]
            /\ tgtRef' = [tgtRef EXCEPT ![i] = @ + ext + aap]
            /\ ev' = Ev("probes", i, IF aap = 1 THEN "aap" ELSE "none")
    /\ pc' = "basechk"
    /\ UNCHANGED <<dpRefcnt, dpFreed, idcode, buVars, apState, apIdr, apBase, apDisc,
                   ub, DpInitVars>>

\* !(ap->base & ADIV5_AP_BASE_PRESENT) || (ap->base == 0xffffffff)
NoDebugBase(base) ==
    \/ U32And(base, ADIV5_AP_BASE_PRESENT) = ZeroW
    \/ base = AllOnesW

\* the Debug Base Address check: adiv5_ap_unref(ap); continue;
EnumBaseCheck ==
    /\ pc = "basechk"
    /\ IF NoDebugBase(apBase[i])
       THEN /\ adiv5_ap_unref(i)
            /\ apDisc' = [apDisc EXCEPT ![i] = "nobase"]
            /\ i' = i + 1
            /\ pc' = "loop"
            /\ ev' = Ev("ap_unref", i,
                        IF ApUnrefFrees(apRefcnt[i]) THEN "freed" ELSE "kept")
       ELSE /\ pc' = "discover"
            /\ ev' = Ev("basechk", i, "present")
            /\ UNCHANGED <<dpRefcnt, dpFreed, apState, apRefcnt, apDisc, i>>
    /\ UNCHANGED <<idcode, buVars, apIdr, apBase, tgtRef, void_aps, last_base, probed, ub>>

ForcedProbe_PerAp(p, idc) == U32And(idc, W(0, \h0FFF)) = W(0, \h0477)

\* !probed && (dp->idcode & 0xfff) == 0x477
ForcedProbe(p, idc) == ~p /\ U32And(idc, W(0, \h0FFF)) = W(0, \h0477)

\* probed |= adiv5_component_probe(ap, ap->base, 0, 0), then the forced
\* Cortex-M probe.  A core probe that creates a target takes a reference.
EnumDiscover ==
    /\ pc = "discover"
    /\ \E res \in BOOLEAN, coreRef \in 0 .. 1 :
        /\ (~res => coreRef = 0)
        /\ LET p      == probed \/ res
               forced == ForcedProbe(p, idcode)
           IN \E forcedRef \in 0 .. 1 :
               /\ (~forced => forcedRef = 0)
               /\ probed' = (p \/ forced)
               /\ LET r0 == IF coreRef = 1 THEN adiv5_ap_ref(apRefcnt[i])
                                           ELSE apRefcnt[i]
                      r1 == IF forcedRef = 1 THEN adiv5_ap_ref(r0) ELSE r0
                  IN  apRefcnt' = [apRefcnt EXCEPT ![i] = r1]
               /\ tgtRef' = [tgtRef EXCEPT ![i] = @ + coreRef + forcedRef]
               /\ apDisc' = [apDisc EXCEPT ![i] =
                               IF res THEN "found"
                               ELSE IF forced THEN "forced" ELSE "nocomp"]
               /\ ev' = Ev("discover", i,
                           IF res THEN "found"
                           ELSE IF forced THEN "forced" ELSE "nocomp")
    /\ i' = i + 1
    /\ pc' = "loop"
    /\ UNCHANGED <<dpRefcnt, dpFreed, idcode, buVars, apState, apIdr, apBase, void_aps,
                   last_base, ub>>

\* the loop ends: adiv5_dp_unref(dp)
DpInitFinish ==
    /\ pc = "loop"
    /\ ~EnumContinues
    /\ adiv5_dp_unref
    /\ pc' = "returned"
    /\ ev' = Ev("dp_init", 0, "finish")
    /\ UNCHANGED <<idcode, buVars, apState, apRefcnt, apIdr, apBase, apDisc, tgtRef, ub,
                   DpInitVars>>

\* a target is destroyed: t->priv_free(t->priv), that is adiv5_ap_unref(ap)
TargetFree ==
    /\ pc = "returned"
    /\ \E a \in Apsels :
        /\ tgtRef[a] > 0
        /\ apState[a] = "live"
        /\ tgtRef' = [tgtRef EXCEPT ![a] = @ - 1]
        /\ adiv5_ap_unref(a)
        /\ ev' = Ev("ap_unref", a,
                    IF ApUnrefFrees(apRefcnt[a]) THEN "freed" ELSE "kept")
    /\ UNCHANGED <<pc, idcode, buVars, apIdr, apBase, apDisc, ub, DpInitVars>>

\* a target is destroyed whose AP has been freed already: adiv5_ap_unref
\* reads and writes freed memory.  The count it finds is arbitrary; it may
\* free the AP a second time and release a DP reference, or do neither.
TargetFreeDangling ==
    /\ pc = "returned"
    /\ \E a \in Apsels :
        /\ tgtRef[a] > 0
        /\ apState[a] = "freed"
        /\ tgtRef' = [tgtRef EXCEPT ![a] = @ - 1]
        /\ ub' = TRUE
        /\ ev' = Ev("ap_unref", a, "dangling")
        /\ \/ UNCHANGED <<dpRefcnt, dpFreed>>
           \/ ~dpFreed /\ adiv5_dp_unref
    /\ UNCHANGED <<pc, idcode, buVars, apState, apRefcnt, apIdr, apBase, apDisc,
                   DpInitVars>>


InitDp ==
    /\ pc = "idle"
    /\ dpRefcnt = NewDpRefcnt
    /\ dpFreed = FALSE
    /\ idcode \in IdcodeValues
    /\ apState = [a \in Apsels |-> "none"]
    /\ apRefcnt = [a \in Apsels |-> 0]
    /\ apIdr = [a \in Apsels |-> ZeroW]
    /\ apBase = [a \in Apsels |-> ZeroW]
    /\ apDisc = [a \in Apsels |-> "pending"]
    /\ tgtRef = [a \in Apsels |-> 0]
    /\ i = 0
    /\ void_aps = 0
    /\ last_base = ZeroW
    /\ probed = FALSE
    /\ ub = FALSE
    /\ ev = Ev("none", 0, "none")
    /\ hw \in [aps : {HwContiguous, HwGap}, dpidr : DpidrValues]
    /\ ctrlstat = ZeroW
    /\ expired = FALSE
    /\ dp_idcode = ZeroW
    /\ targetid = ZeroW
    /\ dplog = <<>>


\* ------------------------------------------------------------------------
\* MEM-AP memory engine: more uint32_t arithmetic
\* ------------------------------------------------------------------------
RECURSIVE Pow2(_)
Pow2(n) == IF n = 0 THEN 1 ELSE 2 * Pow2(n - 1)

\* w >> s, for 0 <= s < 32
U32Shr(w, s) ==
    IF s = 0 THEN w
    ELSE IF s >= 16 THEN W(0, Hi(w) \div Pow2(s - 16))
    ELSE W(Hi(w) \div Pow2(s),
           (Lo(w) \div Pow2(s)) + (Hi(w) % Pow2(s)) * Pow2(16 - s))

\* w << s modulo 2^32, for 0 <= s < 32
U32Shl(w, s) ==
    IF s = 0 THEN w
    ELSE IF s >= 16 THEN W((Lo(w) * Pow2(s - 16)) % Half, 0)
    ELSE W((Hi(w) * Pow2(s) + Lo(w) \div Pow2(16 - s)) % Half,
           (Lo(w) * Pow2(s)) % Half)

\* the four bytes of a word, least significant first, and back
BytesOf(w) == <<Lo(w) % 256, Lo(w) \div 256, Hi(w) % 256, Hi(w) \div 256>>

WordOf(b) == W(b[4] * 256 + b[3], b[2] * 256 + b[1])

\* ------------------------------------------------------------------------
\* Bounds of the memory engine
\* ------------------------------------------------------------------------
\* transfers of 0 .. MaxLen bytes
MaxLen == 16

\* the transfers start at base + FirstSrc .. base + LastSrc of the window
FirstSrc == 8

LastSrc == 17

\* ------------------------------------------------------------------------
\* Constants of the ADIv5 register interface
\* ------------------------------------------------------------------------
ALIGN_BYTE == 0

ALIGN_HALFWORD == 1

ALIGN_WORD == 2

ADIV5_DP_RDBUFF == \h00C

ADIV5_AP_CSW == \h100

ADIV5_AP_TAR == \h104

ADIV5_AP_DRW == \h10C

ADIV5_AP_CSW_SIZE_BYTE == W(0, 0)

ADIV5_AP_CSW_SIZE_HALFWORD == W(0, 1)

ADIV5_AP_CSW_SIZE_WORD == W(0, 2)

ADIV5_AP_CSW_SIZE_MASK == W(0, 7)

ADIV5_AP_CSW_ADDRINC_SINGLE == W(0, \h10)

ADIV5_AP_CSW_ADDRINC_MASK == W(0, \h30)

ADIV5_AP_CSW_TRINPROG == W(0, \h80)

ADIV5_AP_IDR == \h1FC

ADIV5_AP_BASE == \h1F8

ADIV5_AP_CFG == \h1F4

\* what the CSW register of the AP answers when adiv5_new_ap reads it
CswRegValues == {W(\h2300, \h0052), W(\h0300, \h00E2)}

NewApCsw_KeepTrinprog(reg) ==
    U32And(reg, U32Not(U32Or(ADIV5_AP_CSW_SIZE_MASK, ADIV5_AP_CSW_ADDRINC_MASK)))

\* ap->csw = adiv5_ap_read(ap, ADIV5_AP_CSW) & ~(SIZE_MASK | ADDRINC_MASK);
\* if (ap->csw & ADIV5_AP_CSW_TRINPROG) ap->csw &= ~ADIV5_AP_CSW_TRINPROG;
NewApCsw(reg) ==
    LET c == U32And(reg, U32Not(U32Or(ADIV5_AP_CSW_SIZE_MASK,
                                      ADIV5_AP_CSW_ADDRINC_MASK)))
    IN  IF U32And(c, ADIV5_AP_CSW_TRINPROG) # ZeroW
        THEN U32And(c, U32Not(ADIV5_AP_CSW_TRINPROG))
        ELSE c

\* ------------------------------------------------------------------------
\* The mocked MEM-AP
\* ------------------------------------------------------------------------
\* target memory is observed in a window of bytes that straddles a 1 KiB
\* boundary at base + 16: 0x20001000, or 0x20000C00 (not a 4 KiB boundary).
\* A memory is [base, bytes].
WinBases == {W(\h2000, \h0FF0), W(\h2000, \h0BF0)}

WinOffsets == 0 .. (LastSrc + MaxLen + 6)

InWindow(mem, a) ==
    /\ Hi(a) = Hi(mem.base)
    /\ Lo(a) - Lo(mem.base) \in WinOffsets

OffsetOf(mem, a) == Lo(a) - Lo(mem.base)

\* the byte of target memory at address a; outside the window memory reads 0
MemByte(mem, a) == IF InWindow(mem, a) THEN mem.bytes[OffsetOf(mem, a)] ELSE 0

\* the size in bytes selected by the SIZE field of the CSW register
MockUnit(csw) == Pow2(Lo(U32And(csw, ADIV5_AP_CSW_SIZE_MASK)))

\* the byte lanes an access of n bytes at address a drives
MockLanes(a, n) == {k \in 0 .. 3 : k >= (Lo(a) % 4) /\ k < (Lo(a) % 4) + n}

\* the bus word of a read of n bytes at a: data in its byte lanes, 0 elsewhere
MockFetch(mem, a, n) ==
    LET wa == W(Hi(a), Lo(a) - (Lo(a) % 4))
    IN  WordOf([k \in 1 .. 4 |->
                  IF (k - 1) \in MockLanes(a, n)
                  THEN MemByte(mem, U32Add(wa, k - 1)) ELSE 0])

\* memory after a write of n bytes at a of the bus word v: only the byte
\* lanes of the access are stored
MockStore(mem, a, n, v) ==
    [mem EXCEPT !.bytes =
        [o \in WinOffsets |->
            LET x == U32Add(mem.base, o)
            IN  IF /\ Hi(x) = Hi(a)
                   /\ Lo(x) \div 4 = Lo(a) \div 4
                   /\ (Lo(x) % 4) \in MockLanes(a, n)
                THEN BytesOf(v)[(Lo(x) % 4) + 1]
                ELSE mem.bytes[o]]]

\* a write of n bytes at a that reaches memory outside the window
MockStrays(mem, a, n) == \E k \in 0 .. (n - 1) : ~InWindow(mem, U32Add(a, k))

\* TAR after an access: the increment stays in the low 10 bits
MockTarInc(tar, csw) ==
    IF U32And(csw, ADIV5_AP_CSW_ADDRINC_MASK) = ADIV5_AP_CSW_ADDRINC_SINGLE
    THEN W(Hi(tar), (Lo(tar) - (Lo(tar) % 1024))
                      + (((Lo(tar) % 1024) + MockUnit(csw)) % 1024))
    ELSE tar

\* the AP register a DP access at addr reaches through the SELECT bank
MockApReg(sel, addr) == 256 + BitAnd(Lo(sel), \hF0) + BitAnd(addr, \h0F)

MockApsel(sel) == Hi(sel) \div 256

\* one DP-level access against the mock: the new mock state and the value
\* returned.  A DRW read is posted: it returns the result of the access
\* started before and starts the next one at TAR; RDBUFF returns that result
\* and starts nothing.
MockAccess(m, apsel, rnw, addr, value) ==
    LET reg  == MockApReg(m.select, addr)
        mine == MockApsel(m.select) = apsel
        n    == MockUnit(m.csw)
    IN  IF addr = ADIV5_DP_SELECT /\ rnw = "W"
            THEN [m |-> [m EXCEPT !.select = value], ret |-> ZeroW]
        ELSE IF addr = ADIV5_DP_RDBUFF /\ rnw = "R"
            THEN [m |-> m, ret |-> m.posted]
        ELSE IF addr < 256 \/ ~mine
            THEN [m |-> [m EXCEPT !.stray = TRUE], ret |-> ZeroW]
        ELSE IF reg = ADIV5_AP_CSW /\ rnw = "W"
            THEN [m |-> [m EXCEPT !.csw = value], ret |-> ZeroW]
        ELSE IF reg = ADIV5_AP_CSW /\ rnw = "R"
            THEN [m |-> m, ret |-> m.csw]
        ELSE IF reg \in {ADIV5_AP_IDR, ADIV5_AP_BASE, ADIV5_AP_CFG} /\ rnw = "R"
            THEN [m |-> m, ret |-> ZeroW]
        ELSE IF reg = ADIV5_AP_TAR /\ rnw = "W"
            THEN [m |-> [m EXCEPT !.tar = value], ret |-> ZeroW]
        ELSE IF reg = ADIV5_AP_DRW /\ rnw = "R"
            THEN [m |-> [m EXCEPT !.posted = MockFetch(m.mem, m.tar, n),
                                  !.tar = MockTarInc(m.tar, m.csw)],
                  ret |-> m.posted]
        ELSE IF reg = ADIV5_AP_DRW /\ rnw = "W"
            THEN [m |-> [m EXCEPT !.mem = MockStore(m.mem, m.tar, n, value),
                                  !.stray = m.stray \/ MockStrays(m.mem, m.tar, n),
                                  !.tar = MockTarInc(m.tar, m.csw)],
                  ret |-> ZeroW]
        ELSE [m |-> [m EXCEPT !.stray = TRUE], ret |-> ZeroW]

\* ------------------------------------------------------------------------
\* adiv5_mem_read, adiv5_mem_write_sized, adiv5_mem_write
\* ------------------------------------------------------------------------
VARIABLES
    mpc,     \* position of the memory engine
    op,      \* "read" or "write": the caller of ap_mem_access_setup
    memap,   \* the AP: [apsel, csw]
    src,     \* adiv5_mem_read: src
    osrc,
    dest,    \* adiv5_mem_write_sized: dest
    odest,
    len,
    align,
    buf,     \* the buffer: dest of the read, then src of the write
    bpos,    \* adiv5_mem_write_sized: bytes of the buffer consumed
    mock,    \* the mocked MEM-AP
    log,     \* the DP accesses of the running transfer, in order
    xfer,    \* the arguments of the running transfer
    mem0     \* target memory before the transfers

memVars == <<mpc, op, memap, src, osrc, dest, odest, len, align, buf, bpos,
             mock, log, xfer, mem0>>

VARIABLES
    rom,     \* target memory: the components, by address
    apbase,  \* ap->base
    stack,   \* the activations of adiv5_component_probe, innermost last
    cpc,     \* "idle", "walk", "done", "overflow" (call stack exhausted)
    cret     \* the activation that returned last

cpVars == <<rom, apbase, stack, cpc, cret>>

VARIABLES
    tgt,     \* the target: driver, options, RAM and flash regions, commands
    pev,     \* the last efm32_probe: its inputs, di_version, index and result
    er,      \* efm32_flash_erase: position, arguments, locals and result
    elog,    \* the target memory accesses of efm32_flash_erase
    ea,      \* efm32_cmd_erase_all: position, MSC base and result
    ealog,   \* the target memory accesses of efm32_cmd_erase_all
    late,    \* 200 ms have passed since the BUSY poll under way began
    ae,      \* the AAP target and its erase_mass: position, status, result
    aelog    \* the AP register accesses of efm32_aap_cmd_device_erase

aapVars == <<ae, aelog>>

efmVars == <<tgt, pev, er, elog, ea, ealog, late, aapVars>>

vars == <<dpVars, memVars, cpVars, efmVars>>

ALIGNOF_LowBitOnly(x) ==
    IF BitAnd(x, 1) = 0 THEN ALIGN_WORD ELSE ALIGN_BYTE

\* #define ALIGNOF(x) (((x) & 3) == 0 ? ALIGN_WORD :
\*                     (((x) & 1) == 0 ? ALIGN_HALFWORD : ALIGN_BYTE))
\* x & 3 and x & 1 are decided by the low half of a 32-bit value
ALIGNOF(x) ==
    IF BitAnd(x, 3) = 0 THEN ALIGN_WORD
    ELSE IF BitAnd(x, 1) = 0 THEN ALIGN_HALFWORD
    ELSE ALIGN_BYTE

MIN(a, b) == IF a < b THEN a ELSE b

\* MIN(ALIGNOF(src), ALIGNOF(len))
TransferAlign(addr, n) == MIN(ALIGNOF(Lo(addr)), ALIGNOF(n))

\* 1 << align
UnitSize(a) == Pow2(a)

\* len >>= align
TransferCount(n, a) == n \div Pow2(a)

TarCrosses_4K(a, o) == U32And(U32Xor(a, o), W(\hFFFF, \hF000)) # ZeroW

\* (src ^ osrc) & 0xfffffc00
TarCrosses(a, o) == U32And(U32Xor(a, o), W(\hFFFF, \hFC00)) # ZeroW

\* uint32_t csw = ap->csw | ADIV5_AP_CSW_ADDRINC_SINGLE; switch (align) ...
SetupCsw(apcsw, a) ==
    LET c == U32Or(apcsw, ADIV5_AP_CSW_ADDRINC_SINGLE)
    IN  IF a = ALIGN_BYTE THEN U32Or(c, ADIV5_AP_CSW_SIZE_BYTE)
        ELSE IF a = ALIGN_HALFWORD THEN U32Or(c, ADIV5_AP_CSW_SIZE_HALFWORD)
        ELSE U32Or(c, ADIV5_AP_CSW_SIZE_WORD)

ByteLaneShift_Bit0(a) == BitAnd(Lo(a), 1) * 8

\* (src & 0x3) << 3
ByteLaneShift(a) == BitAnd(Lo(a), 3) * 8

\* (src & 0x2) << 3
HalfLaneShift(a) == BitAnd(Lo(a), 2) * 8

\* extract: the bytes stored at dest.  The host is little-endian: a uint16_t
\* or uint32_t store puts the least significant byte first.
extract(s, val, a) ==
    IF a = ALIGN_BYTE
        THEN <<Lo(U32And(U32Shr(val, ByteLaneShift(s)), W(0, \hFF)))>>
    ELSE IF a = ALIGN_HALFWORD
        THEN LET h == Lo(U32And(U32Shr(val, HalfLaneShift(s)), W(0, \hFFFF)))
             IN  <<h % 256, h \div 256>>
    ELSE BytesOf(val)

PackByteShift_Bit0(d) == BitAnd(Lo(d), 1) * 8

\* (dest & 3) << 3
PackByteShift(d) == BitAnd(Lo(d), 3) * 8

\* adiv5_mem_write_sized: pack the unit at buffer position p into its lane
Pack(b, p, d, a) ==
    IF a = ALIGN_BYTE
        THEN U32Shl(W(0, b[p + 1]), PackByteShift(d))
    ELSE IF a = ALIGN_HALFWORD
        THEN U32Shl(W(0, b[p + 1] + 256 * b[p + 2]), HalfLaneShift(d))
    ELSE WordOf(<<b[p + 1], b[p + 2], b[p + 3], b[p + 4]>>)

FinalReadReg_Drw == ADIV5_AP_DRW

\* tmp = adiv5_dp_low_access(ap->dp, ADIV5_LOW_READ, ADIV5_DP_RDBUFF, 0)
FinalReadReg == ADIV5_DP_RDBUFF

LogEntry(rnw, addr, value, unit) ==
    [rnw |-> rnw, addr |-> addr, value |-> value, unit |-> unit]

\* adiv5_dp_low_access / adiv5_dp_write against the mock
Access(rnw, addr, value, unit) ==
    /\ mock' = MockAccess(mock, memap.apsel, rnw, addr, value).m
    /\ log' = Append(log, LogEntry(rnw, addr, value, unit))

Returned(rnw, addr, value) ==
    MockAccess(mock, memap.apsel, rnw, addr, value).ret

SelectFor_Bank0(apsel, addr) == W(apsel * 256, 0)

\* ((uint32_t)ap->apsel << 24) | (addr & 0xF0)
SelectFor(apsel, addr) == W(apsel * 256, BitAnd(addr, \hF0))

\* adiv5_ap_read(ap, addr): the SELECT write, then the register read
adiv5_ap_read ==
    /\ mpc = "idle"
    /\ log = <<>>
    /\ \E reg \in {ADIV5_AP_IDR, ADIV5_AP_BASE, ADIV5_AP_CFG, ADIV5_AP_CSW} :
        LET sel == SelectFor(memap.apsel, reg)
            m1  == MockAccess(mock, memap.apsel, "W", ADIV5_DP_SELECT, sel).m
        IN  /\ mock' = MockAccess(m1, memap.apsel, "R", reg, ZeroW).m
            /\ log' = <<LogEntry("W", ADIV5_DP_SELECT, sel, ZeroW),
                        LogEntry("R", reg, ZeroW, ZeroW)>>
    /\ UNCHANGED <<mpc, op, memap, src, osrc, dest, odest, len, align, buf,
                   bpos, xfer, mem0>>

\* adiv5_mem_read(ap, dest, src, len): entry, up to "len >>= align"
MemReadCall ==
    /\ mpc = "idle"
    /\ \E s \in FirstSrc .. LastSrc, n \in 0 .. MaxLen :
        LET a == U32Add(mem0.base, s)
            al == TransferAlign(a, n)
        IN  /\ src' = a
            /\ osrc' = a
            /\ align' = al
            /\ xfer' = [addr |-> a, len |-> n, count |-> TransferCount(n, al)]
            /\ IF n = 0
               THEN mpc' = "r_done" /\ len' = n
               ELSE mpc' = "setup_select" /\ len' = TransferCount(n, al)
    /\ op' = "read"
    /\ buf' = <<>>
    /\ log' = <<>>
    /\ UNCHANGED <<memap, dest, odest, bpos, mock, mem0>>

SetupAddr == IF op = "read" THEN src ELSE dest

\* ap_mem_access_setup -> adiv5_ap_write: the SELECT write
SetupSelect ==
    /\ mpc = "setup_select"
    /\ Access("W", ADIV5_DP_SELECT, SelectFor(memap.apsel, ADIV5_AP_CSW), ZeroW)
    /\ mpc' = "setup_csw"
    /\ UNCHANGED <<op, memap, src, osrc, dest, odest, len, align, buf, bpos,
                   xfer, mem0>>

\* ap_mem_access_setup -> adiv5_ap_write: the CSW write
SetupCswWrite ==
    /\ mpc = "setup_csw"
    /\ Access("W", ADIV5_AP_CSW, SetupCsw(memap.csw, align), ZeroW)
    /\ mpc' = "setup_tar"
    /\ UNCHANGED <<op, memap, src, osrc, dest, odest, len, align, buf, bpos,
                   xfer, mem0>>

\* ap_mem_access_setup: the TAR write
SetupTar ==
    /\ mpc = "setup_tar"
    /\ Access("W", ADIV5_AP_TAR, SetupAddr, ZeroW)
    /\ mpc' = IF op = "read" THEN "r_prime" ELSE "w_loop"
    /\ UNCHANGED <<op, memap, src, osrc, dest, odest, len, align, buf, bpos,
                   xfer, mem0>>

\* the priming DRW read, result discarded
ReadPrime ==
    /\ mpc = "r_prime"
    /\ Access("R", ADIV5_AP_DRW, ZeroW, src)
    /\ mpc' = "r_loop"
    /\ UNCHANGED <<op, memap, src, osrc, dest, odest, len, align, buf, bpos,
                   xfer, mem0>>

\* while (--len) { tmp = DRW; dest = extract(...); src += (1 << align); ... }
ReadLoop ==
    /\ mpc = "r_loop"
    /\ len - 1 # 0
    /\ len' = len - 1
    /\ Access("R", ADIV5_AP_DRW, ZeroW, src)
    /\ buf' = buf \o extract(src, Returned("R", ADIV5_AP_DRW, ZeroW), align)
    /\ LET s == U32Add(src, UnitSize(align))
       IN  /\ src' = s
           /\ IF TarCrosses(s, osrc)
              THEN osrc' = s /\ mpc' = "r_xtar"
              ELSE osrc' = osrc /\ mpc' = "r_loop"
    /\ UNCHANGED <<op, memap, dest, odest, align, bpos, xfer, mem0>>

\* 10 bit address overflow: rewrite TAR
ReadCrossTar ==
    /\ mpc = "r_xtar"
    /\ Access("W", ADIV5_AP_TAR, src, ZeroW)
    /\ mpc' = "r_xdrw"
    /\ UNCHANGED <<op, memap, src, osrc, dest, odest, len, align, buf, bpos,
                   xfer, mem0>>

\* 10 bit address overflow: prime again
ReadCrossDrw ==
    /\ mpc = "r_xdrw"
    /\ Access("R", ADIV5_AP_DRW, ZeroW, src)
    /\ mpc' = "r_loop"
    /\ UNCHANGED <<op, memap, src, osrc, dest, odest, len, align, buf, bpos,
                   xfer, mem0>>

\* the loop ends; the last unit is read from RDBUFF
ReadFinal ==
    /\ mpc = "r_loop"
    /\ len - 1 = 0
    /\ len' = len - 1
    /\ Access("R", FinalReadReg, ZeroW, src)
    /\ buf' = buf \o extract(src, Returned("R", FinalReadReg, ZeroW), align)
    /\ mpc' = "r_done"
    /\ UNCHANGED <<op, memap, src, osrc, dest, odest, align, bpos, xfer, mem0>>

\* adiv5_mem_write(ap, dest, src, len) of the buffer just read, to the
\* address it was read from; then adiv5_mem_write_sized up to "len >>= align"
MemWriteCall ==
    /\ mpc = "r_done"
    /\ LET al == TransferAlign(xfer.addr, xfer.len)
       IN  /\ align' = al
           /\ len' = TransferCount(xfer.len, al)
           /\ xfer' = [xfer EXCEPT !.count = TransferCount(xfer.len, al)]
    /\ dest' = xfer.addr
    /\ odest' = xfer.addr
    /\ bpos' = 0
    /\ op' = "write"
    /\ log' = <<>>
    /\ mpc' = "setup_select"
    /\ UNCHANGED <<memap, src, osrc, buf, mock, mem0>>

\* while (len--) { pack; src += ...; dest += ...; DRW write; ... }
WriteLoop ==
    /\ mpc = "w_loop"
    /\ len # 0
    /\ len' = len - 1
    /\ Access("W", ADIV5_AP_DRW, Pack(buf, bpos, dest, align), dest)
    /\ bpos' = bpos + UnitSize(align)
    /\ LET d == U32Add(dest, UnitSize(align))
       IN  /\ dest' = d
           /\ IF TarCrosses(d, odest)
              THEN odest' = d /\ mpc' = "w_xtar"
              ELSE odest' = odest /\ mpc' = "w_loop"
    /\ UNCHANGED <<op, memap, src, osrc, align, buf, xfer, mem0>>

\* 10 bit address overflow: rewrite TAR
WriteCrossTar ==
    /\ mpc = "w_xtar"
    /\ Access("W", ADIV5_AP_TAR, dest, ZeroW)
    /\ mpc' = "w_loop"
    /\ UNCHANGED <<op, memap, src, osrc, dest, odest, len, align, buf, bpos,
                   xfer, mem0>>

\* the loop ends
WriteDone ==
    /\ mpc = "w_loop"
    /\ len = 0
    /\ mpc' = "w_done"
    /\ UNCHANGED <<op, memap, src, osrc, dest, odest, len, align, buf, bpos,
                   mock, log, xfer, mem0>>

\* target memory: distinct non-zero bytes
MemPattern(base, seed) ==
    [base |-> base,
     bytes |-> [o \in WinOffsets |-> ((o * 7 + seed) % 251) + 1]]

InitMem ==
    /\ mpc = "idle"
    /\ op = "read"
    /\ src = ZeroW
    /\ osrc = ZeroW
    /\ dest = ZeroW
    /\ odest = ZeroW
    /\ len = 0
    /\ align = ALIGN_BYTE
    /\ buf = <<>>
    /\ bpos = 0
    /\ \E a \in {0, 1}, reg \in CswRegValues, base \in WinBases, seed \in {3, 90} :
        /\ memap = [apsel |-> a, csw |-> NewApCsw(reg)]
        /\ mem0 = MemPattern(base, seed)
        /\ mock = [select |-> W(\hFF00, \h00F0), csw |-> reg, tar |-> ZeroW,
                   posted |-> W(\hDEAD, \hBEEF), mem |-> MemPattern(base, seed),
                   stray |-> FALSE]
    /\ log = <<>>
    /\ xfer = [addr |-> ZeroW, len |-> 0, count |-> 0]

\* ------------------------------------------------------------------------
\* Bounds of the ROM table walk
\* ------------------------------------------------------------------------
\* activations of adiv5_component_probe the call stack holds
MaxDepth == 6

\* the reads of ROM table entries that may end with a DP error: those whose
\* table depth plus entry index is below this bound
MaxFaultIndex == 1

\* ------------------------------------------------------------------------
\* Component identification: 64-bit values are pairs <<high word, low word>>
\* ------------------------------------------------------------------------
U64And(a, b) == <<U32And(a[1], b[1]), U32And(a[2], b[2])>>

U64Or(a, b) == <<U32Or(a[1], b[1]), U32Or(a[2], b[2])>>

U64Not(a) == <<U32Not(a[1]), U32Not(a[2])>>

\* a + b modulo 2^32
U32Plus(a, b) ==
    LET s == Lo(a) + Lo(b)
    IN  W((Hi(a) + Hi(b) + (s \div Half)) % Half, s % Half)

CIDR0_OFFSET == \hFF0

PIDR0_OFFSET == \hFE0

PIDR4_OFFSET == \hFD0

DEVARCH_OFFSET == \hFBC

DEVTYPE_OFFSET == \hFCC

CID_PREAMBLE == W(\hB105, \h000D)

CID_CLASS_MASK == W(0, \hF000)

CID_CLASS_SHIFT == 12

\* enum cid_class
cidc_romtab == 1

cidc_dc == 9

cidc_gipc == 14

cidc_unknown == 16

PIDR_REV_MASK == <<ZeroW, W(\hFFF0, 0)>>

PIDR_PN_MASK == <<ZeroW, W(0, \h0FFF)>>

PIDR_ARM_BITS == <<W(0, 4), W(\h000B, \hB000)>>

DEVARCH_ARCHID_MASK == W(0, \hFFFF)

DEVARCH_PRESENT_MASK == W(\h0010, 0)

DEVTYPE_MAJOR_MASK == W(0, \h0F)

DEVTYPE_MINOR_MASK == W(0, \hF0)

ADIV5_ROM_ROMENTRY_PRESENT == W(0, 1)

ADIV5_ROM_ROMENTRY_OFFSET == W(\hFFFF, \hF000)

\* for (int i = 0; i < 960; i++)
MaxRomEntries == 960

\* rows <<part_number, arch, cidc>>
pidr_pn_bits ==
    <<<<\h000, "aa_cortexm", cidc_gipc>>,
      <<\h001, "aa_nosupport", cidc_unknown>>,
      <<\h002, "aa_nosupport", cidc_unknown>>,
      <<\h003, "aa_nosupport", cidc_unknown>>,
      <<\h008, "aa_cortexm", cidc_gipc>>,
      <<\h00A, "aa_nosupport", cidc_unknown>>,
      <<\h00B, "aa_nosupport", cidc_unknown>>,
      <<\h00C, "aa_cortexm", cidc_gipc>>,
      <<\h00D, "aa_nosupport", cidc_unknown>>,
      <<\h00E, "aa_nosupport", cidc_unknown>>,
      <<\h101, "aa_nosupport", cidc_unknown>>,
      <<\h490, "aa_nosupport", cidc_unknown>>,
      <<\h4C7, "aa_nosupport", cidc_unknown>>,
      <<\h906, "aa_nosupport", cidc_unknown>>,
      <<\h907, "aa_nosupport", cidc_unknown>>,
      <<\h908, "aa_nosupport", cidc_unknown>>,
      <<\h910, "aa_nosupport", cidc_unknown>>,
      <<\h912, "aa_nosupport", cidc_unknown>>,
      <<\h913, "aa_nosupport", cidc_unknown>>,
      <<\h914, "aa_nosupport", cidc_unknown>>,
      <<\h917, "aa_nosupport", cidc_unknown>>,
      <<\h920, "aa_nosupport", cidc_unknown>>,
      <<\h921, "aa_nosupport", cidc_unknown>>,
      <<\h922, "aa_nosupport", cidc_unknown>>,
      <<\h923, "aa_nosupport", cidc_unknown>>,
      <<\h924, "aa_nosupport", cidc_unknown>>,
      <<\h925, "aa_nosupport", cidc_unknown>>,
      <<\h930, "aa_nosupport", cidc_unknown>>,
      <<\h932, "aa_nosupport", cidc_unknown>>,
      <<\h941, "aa_nosupport", cidc_unknown>>,
      <<\h950, "aa_nosupport", cidc_unknown>>,
      <<\h955, "aa_nosupport", cidc_unknown>>,
      <<\h956, "aa_nosupport", cidc_unknown>>,
      <<\h95F, "aa_nosupport", cidc_unknown>>,
      <<\h961, "aa_nosupport", cidc_unknown>>,
      <<\h962, "aa_nosupport", cidc_unknown>>,
      <<\h963, "aa_nosupport", cidc_unknown>>,
      <<\h975, "aa_nosupport", cidc_unknown>>,
      <<\h9A0, "aa_nosupport", cidc_unknown>>,
      <<\h9A1, "aa_nosupport", cidc_unknown>>,
      <<\h9A9, "aa_nosupport", cidc_unknown>>,
      <<\h9A5, "aa_nosupport", cidc_unknown>>,
      <<\h9A7, "aa_nosupport", cidc_unknown>>,
      <<\h9AF, "aa_nosupport", cidc_unknown>>,
      <<\hC05, "aa_cortexa", cidc_dc>>, <<\hC07, "aa_cortexa", cidc_dc>>,
      <<\hC08, "aa_cortexa", cidc_dc>>, <<\hC09, "aa_cortexa", cidc_dc>>,
      <<\hC0F, "aa_nosupport", cidc_unknown>>,
      <<\hC14, "aa_nosupport", cidc_unknown>>,
      <<\hCD0, "aa_nosupport", cidc_unknown>>,
      <<\hD21, "aa_v8", cidc_unknown>>, <<\hFFF, "aa_end", cidc_unknown>>>>

\* rows <<archid, arch>>
devarch_archid_bits ==
    <<<<\h0A00, "aa_nosupport">>, <<\h0A01, "aa_nosupport">>,
      <<\h0A02, "aa_nosupport">>, <<\h0A03, "aa_nosupport">>,
      <<\h0A04, "aa_cortexm">>, <<\h0A10, "aa_nosupport">>,
      <<\h0A17, "aa_nosupport">>, <<\h0A27, "aa_nosupport">>,
      <<\h0A31, "aa_nosupport">>, <<\h0A37, "aa_nosupport">>,
      <<\h0A47, "aa_nosupport">>, <<\h0A50, "aa_nosupport">>,
      <<\h0A63, "aa_nosupport">>, <<\h0A75, "aa_nosupport">>,
      <<\h0AF7, "aa_nosupport">>, <<\h1A01, "aa_nosupport">>,
      <<\h1A02, "aa_nosupport">>, <<\h1A03, "aa_nosupport">>,
      <<\h1A14, "aa_nosupport">>, <<\h2A04, "aa_cortexm">>,
      <<\h2A16, "aa_nosupport">>, <<\h4A13, "aa_nosupport">>,
      <<\h6A05, "aa_nosupport">>, <<\h6A15, "aa_cortexa">>,
      <<\h7A15, "aa_cortexa">>, <<\h8A15, "aa_cortexa">>,
      <<\hFFFF, "aa_end">>>>

\* rows <<id, arch>>
devtype_id_bits ==
    <<<<\h00, "aa_nosupport">>, <<\h04, "aa_nosupport">>,
      <<\h10, "aa_nosupport">>, <<\h11, "aa_nosupport">>,
      <<\h12, "aa_nosupport">>, <<\h13, "aa_nosupport">>,
      <<\h20, "aa_nosupport">>, <<\h21, "aa_nosupport">>,
      <<\h22, "aa_nosupport">>, <<\h23, "aa_nosupport">>,
      <<\h30, "aa_nosupport">>, <<\h31, "aa_nosupport">>,
      <<\h32, "aa_nosupport">>, <<\h33, "aa_nosupport">>,
      <<\h34, "aa_nosupport">>, <<\h36, "aa_nosupport">>,
      <<\h40, "aa_nosupport">>, <<\h41, "aa_nosupport">>,
      <<\h42, "aa_nosupport">>, <<\h43, "aa_nosupport">>,
      <<\h50, "aa_nosupport">>, <<\h51, "aa_nosupport">>,
      <<\h52, "aa_nosupport">>, <<\h53, "aa_nosupport">>,
      <<\h54, "aa_nosupport">>, <<\h55, "aa_nosupport">>,
      <<\h60, "aa_nosupport">>, <<\h61, "aa_nosupport">>,
      <<\h62, "aa_nosupport">>, <<\h63, "aa_nosupport">>,
      <<\h64, "aa_nosupport">>, <<\h65, "aa_nosupport">>, <<\hFF, "aa_end">>>>

\* adiv5_ap_read_id: the low bytes of four consecutive words,
\* res |= (x & 0xff) << (i * 8)
adiv5_ap_read_id(regs) ==
    W((Lo(regs[4]) % 256) * 256 + (Lo(regs[3]) % 256),
      (Lo(regs[2]) % 256) * 256 + (Lo(regs[1]) % 256))

\* adiv5_ap_read_pidr: PIDR4..7 in the high word, PIDR0..3 in the low word
adiv5_ap_read_pidr(comp) ==
    <<adiv5_ap_read_id(comp.pid47), adiv5_ap_read_id(comp.pid03)>>

PreambleOk_HighHalf(cidr) == Hi(cidr) = Hi(CID_PREAMBLE)

\* (cidr & ~CID_CLASS_MASK) == CID_PREAMBLE
PreambleOk(cidr) == U32And(cidr, U32Not(CID_CLASS_MASK)) = CID_PREAMBLE

\* (cidr & CID_CLASS_MASK) >> CID_CLASS_SHIFT
CidClass(cidr) == Lo(U32Shr(U32And(cidr, CID_CLASS_MASK), CID_CLASS_SHIFT))

IsArmDesigned_RevChecked(pidr) ==
    U64And(pidr, U64Not(PIDR_PN_MASK)) = PIDR_ARM_BITS

\* (pidr & ~(PIDR_REV_MASK | PIDR_PN_MASK)) == PIDR_ARM_BITS
IsArmDesigned(pidr) ==
    U64And(pidr, U64Not(U64Or(PIDR_REV_MASK, PIDR_PN_MASK))) = PIDR_ARM_BITS

\* uint16_t part_number = pidr & PIDR_PN_MASK
PartNumber(pidr) == Lo(U64And(pidr, PIDR_PN_MASK)[2])

\* for (i = 0; pidr_pn_bits[i].arch != aa_end; i++)
\*     if (pidr_pn_bits[i].part_number == part_number) { ...; break; }
\* the value of i after the loop
RECURSIVE PnLookup(_, _)
PnLookup(k, pn) ==
    IF pidr_pn_bits[k][2] = "aa_end" THEN k
    ELSE IF pidr_pn_bits[k][1] = pn THEN k
    ELSE PnLookup(k + 1, pn)

\* the loop over devarch_archid_bits: the first row with this archid that
\* is not aa_nosupport
RECURSIVE DevarchLookup(_, _)
DevarchLookup(k, id) ==
    IF devarch_archid_bits[k][2] = "aa_end" THEN "aa_nosupport"
    ELSE IF devarch_archid_bits[k][1] = id
            /\ devarch_archid_bits[k][2] # "aa_nosupport"
         THEN devarch_archid_bits[k][2]
    ELSE DevarchLookup(k + 1, id)

\* the loop over devtype_id_bits
RECURSIVE DevtypeLookup(_, _)
DevtypeLookup(k, id) ==
    IF devtype_id_bits[k][2] = "aa_end" THEN "aa_nosupport"
    ELSE IF devtype_id_bits[k][1] = id /\ devtype_id_bits[k][2] # "aa_nosupport"
         THEN devtype_id_bits[k][2]
    ELSE DevtypeLookup(k + 1, id)

\* (uint16_t)((devarch & DEVARCH_ARCHID_MASK) >> DEVARCH_ARCHID_SHIFT)
DevarchId(devarch) == Lo(U32And(devarch, DEVARCH_ARCHID_MASK))

\* devtype_id = (devtype & MINOR_MASK) >> 4 | ((devtype & MAJOR_MASK) >> 0) << 4
DevtypeId(devtype) ==
    BitOr(Lo(U32Shr(U32And(devtype, DEVTYPE_MINOR_MASK), 4)),
          (Lo(U32And(devtype, DEVTYPE_MAJOR_MASK)) * 16) % 256)

DevarchPresent_Bit16(devarch) == U32And(devarch, W(\h0001, 0)) # ZeroW

\* devarch & DEVARCH_PRESENT_MASK
DevarchPresent(devarch) == U32And(devarch, DEVARCH_PRESENT_MASK) # ZeroW

\* adiv5_armv8_probe: the architecture found and the registers read
adiv5_armv8_probe(comp) ==
    IF DevarchPresent(comp.devarch)
    THEN [arch |-> DevarchLookup(1, DevarchId(comp.devarch)),
          regs |-> <<DEVARCH_OFFSET>>]
    ELSE [arch |-> DevtypeLookup(1, DevtypeId(comp.devtype)),
          regs |-> <<DEVARCH_OFFSET, DEVTYPE_OFFSET>>]

\* the probe calls of a leaf component
CortexmProbe(forced) == [fn |-> "cortexm_probe", forced |-> forced, base |-> ZeroW]

CortexaProbe(addr) == [fn |-> "cortexa_probe", forced |-> FALSE, base |-> addr]

LeafCalls_NoCortexA(arch, v8arch, addr) ==
    IF arch = "aa_cortexm" THEN <<CortexmProbe(FALSE)>>
    ELSE IF arch = "aa_v8"
         THEN IF v8arch = "aa_cortexm" THEN <<CortexmProbe(FALSE)>>
              ELSE IF v8arch = "aa_cortexa" THEN <<CortexaProbe(addr)>>
              ELSE <<>>
    ELSE <<>>

\* switch (pidr_pn_bits[i].arch) { case aa_cortexm: ...; case aa_v8: switch
\* (armv8_probe) ...; case aa_cortexa: ...; default: }
LeafCalls(arch, v8arch, addr) ==
    IF arch = "aa_cortexm" THEN <<CortexmProbe(FALSE)>>
    ELSE IF arch = "aa_cortexa" THEN <<CortexaProbe(addr)>>
    ELSE IF arch = "aa_v8"
         THEN IF v8arch = "aa_cortexm" THEN <<CortexmProbe(FALSE)>>
              ELSE IF v8arch = "aa_cortexa" THEN <<CortexaProbe(addr)>>
              ELSE <<>>
    ELSE <<>>

LeafProbe_AnyDesigner(comp, pidr, addr) ==
    LET k   == PnLookup(1, PartNumber(pidr))
        row == pidr_pn_bits[k]
        v8  == IF row[2] = "aa_v8" THEN adiv5_armv8_probe(comp)
               ELSE [arch |-> "aa_nosupport", regs |-> <<>>]
    IN  IF row[2] = "aa_end"
        THEN [res |-> FALSE, probes |-> <<>>, regs |-> <<>>]
        ELSE [res |-> TRUE, probes |-> LeafCalls(row[2], v8.arch, addr),
              regs |-> v8.regs]

\* the else branch of "if (cid_class == cidc_romtab)": the designer check,
\* the part-number loop, the probe calls
LeafProbe(comp, pidr, addr) ==
    IF ~IsArmDesigned(pidr)
    THEN [res |-> FALSE, probes |-> <<>>, regs |-> <<>>]
    ELSE LET k   == PnLookup(1, PartNumber(pidr))
             row == pidr_pn_bits[k]
             v8  == IF row[2] = "aa_v8" THEN adiv5_armv8_probe(comp)
                    ELSE [arch |-> "aa_nosupport", regs |-> <<>>]
         IN  IF row[2] = "aa_end"
             THEN [res |-> FALSE, probes |-> <<>>, regs |-> <<>>]
             ELSE [res |-> TRUE, probes |-> LeafCalls(row[2], v8.arch, addr),
                   regs |-> v8.regs]

\* i < 960
RomLoopContinues_Inclusive(k) == k <= MaxRomEntries

RomLoopContinues(k) == k < MaxRomEntries

\* entry & ADIV5_ROM_ROMENTRY_PRESENT
EntryPresent(entry) == U32And(entry, ADIV5_ROM_ROMENTRY_PRESENT) # ZeroW

\* addr + (entry & ADIV5_ROM_ROMENTRY_OFFSET)
EntryTarget(addr, entry) ==
    U32Plus(addr, U32And(entry, ADIV5_ROM_ROMENTRY_OFFSET))

\* ------------------------------------------------------------------------
\* Target memory seen by adiv5_component_probe
\* ------------------------------------------------------------------------
\* four ID registers holding the bytes of a 32-bit value, bits [31:8] of each
\* register holding junk
IdRegs(v, junk) ==
    [k \in 1 .. 4 |-> W(junk, (junk % 256) * 256 + BytesOf(v)[k])]

\* a 4 KiB component: its ID registers, DEVARCH, DEVTYPE and, for a ROM
\* table, the entries: head, then fill, with entry 959 given by last
Component(pidrHi, pidrLo, cidr, junk, devarch, devtype, head, fill, last) ==
    [pid47 |-> IdRegs(pidrHi, junk), pid03 |-> IdRegs(pidrLo, junk),
     cid |-> IdRegs(cidr, junk), devarch |-> devarch, devtype |-> devtype,
     head |-> head, fill |-> fill, last |-> last]

\* memory that answers 0 everywhere
AbsentComponent ==
    Component(ZeroW, ZeroW, ZeroW, 0, ZeroW, ZeroW, <<>>, ZeroW, ZeroW)

\* the component at addr
CompAt(mem, addr) ==
    IF addr \in DOMAIN mem THEN mem[addr] ELSE AbsentComponent

\* adiv5_mem_read32(ap, addr + k * 4) within a component
RomEntry(comp, k) ==
    IF k < Len(comp.head) THEN comp.head[k + 1]
    ELSE IF k = MaxRomEntries - 1 THEN comp.last
    ELSE comp.fill

\* ------------------------------------------------------------------------
\* adiv5_component_probe
\* ------------------------------------------------------------------------
\* one activation of adiv5_component_probe(ap, addr, recursion, num_entry)
Frame(addr, recursion, num_entry) ==
    [addr |-> addr, depth |-> recursion, num |-> num_entry, stage |-> "enter",
     fault |-> FALSE, pidr |-> <<ZeroW, ZeroW>>, cidr |-> ZeroW, i |-> 0,
     res |-> FALSE, nread |-> 0, kids |-> <<>>, regs |-> <<>>,
     probes |-> <<>>, efault |-> FALSE, via |-> FALSE]

Top == stack[Len(stack)]

SetTop(f) == [stack EXCEPT ![Len(stack)] = f]

\* addr &= ~3
WordAligned(addr) == U32And(addr, U32Not(W(0, 3)))

\* adiv5_dp_init: adiv5_component_probe(ap, ap->base, 0, 0)
ProbeCall ==
    /\ cpc = "idle"
    /\ stack' = <<Frame(WordAligned(apbase), 0, 0)>>
    /\ cpc' = "walk"
    /\ UNCHANGED <<rom, apbase, cret>>

\* the PIDR and CIDR reads, the DP error check, the preamble check and the
\* component class
ProbeReadId ==
    /\ cpc = "walk"
    /\ Top.stage = "enter"
    /\ \E fault \in BOOLEAN :
        LET comp == CompAt(rom, Top.addr)
            pidr == adiv5_ap_read_pidr(comp)
            cidr == adiv5_ap_read_id(comp.cid)
            f    == [Top EXCEPT !.fault = fault, !.pidr = pidr, !.cidr = cidr]
        IN  stack' = SetTop(
                IF fault THEN [f EXCEPT !.stage = "ret"]
                ELSE IF ~PreambleOk(cidr) THEN [f EXCEPT !.stage = "ret"]
                ELSE IF CidClass(cidr) = cidc_romtab
                     THEN [f EXCEPT !.stage = "loop"]
                ELSE [f EXCEPT !.stage = "leaf"])
    /\ UNCHANGED <<rom, apbase, cpc, cret>>

\* a component that is not a ROM table
ProbeLeaf ==
    /\ cpc = "walk"
    /\ Top.stage = "leaf"
    /\ LET r == LeafProbe(CompAt(rom, Top.addr), Top.pidr, Top.addr)
       IN  stack' = SetTop([Top EXCEPT !.res = r.res, !.probes = r.probes,
                                       !.regs = r.regs, !.stage = "ret"])
    /\ UNCHANGED <<rom, apbase, cpc, cret>>

\* what adiv5_mem_read32 returns for a table entry: the word in memory, or,
\* when the access ends with a DP error, that word or 0
EntryReadValues(word, fault) == IF fault THEN {word, ZeroW} ELSE {word}

\* one pass of the loop over the ROM table entries.  A DP error after the
\* read is logged only (if (adiv5_dp_error(ap->dp)) { DEBUG(...); }): the
\* activation notes it in efault, a recursive call made for the entry in via
ProbeEntry ==
    /\ cpc = "walk"
    /\ Top.stage = "loop"
    /\ RomLoopContinues(Top.i)
    /\ \E fault \in {f \in BOOLEAN : f => Top.depth + Top.i < MaxFaultIndex} :
       \E entry \in EntryReadValues(RomEntry(CompAt(rom, Top.addr), Top.i),
                                    fault) :
       LET f == [Top EXCEPT !.nread = @ + 1, !.efault = @ \/ fault]
       IN  IF entry = ZeroW
           THEN /\ stack' = SetTop([f EXCEPT !.stage = "ret"])
                /\ cpc' = cpc
           ELSE IF ~EntryPresent(entry)
           THEN /\ stack' = SetTop([f EXCEPT !.i = @ + 1])
                /\ cpc' = cpc
           ELSE IF Len(stack) < MaxDepth
           THEN /\ stack' = Append(SetTop(f),
                       [Frame(WordAligned(EntryTarget(Top.addr, entry)),
                              Top.depth + 1, Top.i) EXCEPT !.via = fault])
                /\ cpc' = cpc
           ELSE /\ stack' = SetTop(f)
                /\ cpc' = "overflow"
    /\ UNCHANGED <<rom, apbase, cret>>

\* the loop has run 960 times
ProbeLoopEnd ==
    /\ cpc = "walk"
    /\ Top.stage = "loop"
    /\ ~RomLoopContinues(Top.i)
    /\ stack' = SetTop([Top EXCEPT !.stage = "ret"])
    /\ UNCHANGED <<rom, apbase, cpc, cret>>

\* return res; in the caller: res |= ..., i++
ProbeReturn ==
    /\ cpc = "walk"
    /\ Top.stage = "ret"
    /\ cret' = Top
    /\ IF Len(stack) = 1
       THEN /\ stack' = <<>>
            /\ cpc' = "done"
       ELSE LET rest   == SubSeq(stack, 1, Len(stack) - 1)
                parent == rest[Len(rest)]
            IN  /\ stack' = [rest EXCEPT ![Len(rest)] =
                                [parent EXCEPT
                                    !.res = (parent.res \/ Top.res),
                                    !.kids = Append(@, [num |-> Top.num,
                                                        addr |-> Top.addr,
                                                        depth |-> Top.depth,
                                                        res |-> Top.res]),
                                    !.i = @ + 1]]
                /\ cpc' = cpc
    /\ UNCHANGED <<rom, apbase>>

\* ------------------------------------------------------------------------
\* Inputs of adiv5_component_probe: the contents of target memory
\* ------------------------------------------------------------------------
\* the ROM table named by BASE and two components it may point to
RootAddr == W(\hE00F, \hF000)

AddrA == W(\hE000, \hE000)

AddrB == W(\hE000, \h1000)

\* ROM table entries: present entries to A, to B, to the table itself, to
\* an address where nothing answers; an entry for A that is not present
EntryToA == W(\hFFF0, \hF003)

EntryToB == W(\hFFF0, \h2003)

EntryNotPresentA == W(\hFFF0, \hF002)

EntrySelf == W(0, 3)

EntryToNothing == W(\h0001, \h0003)

EntryAToB == W(\hFFFF, \h3003)

EntryAToRoot == W(\h000F, \h1003)

EntryBToA == W(0, \hD003)

\* the low word of a PIDR: revision bits [31:20], JEP-106 bits [19:12],
\* part number [11:0]
PidrLo(rev, jep, pn) == W(rev * 16 + jep \div 16, (jep % 16) * 4096 + pn)

Leaf(pidrHi, pidrLo, cidr, junk, devarch, devtype) ==
    Component(pidrHi, pidrLo, cidr, junk, devarch, devtype, <<>>, ZeroW, ZeroW)

Table(head, fill, last) ==
    Component(W(0, 4), PidrLo(0, \hBB, \h4C4), W(\hB105, \h100D), 0, ZeroW,
              ZeroW, head, fill, last)

CidGipc == W(\hB105, \hE00D)

CidDc == W(\hB105, \h900D)

\* a single component at BASE, over PIDR values and two component classes
RootLeaves ==
    {Leaf(hi, PidrLo(rev, jep, pn), cidr, 0, ZeroW, ZeroW) :
        hi \in {W(0, 4), ZeroW, W(0, \h14), W(0, \h0104)},
        rev \in {0, 1, \hA03},
        jep \in {\hBB, \hBA, \h3B},
        pn \in {\h000, \h00C, \hC09, \h002, \h123, \hFFF, \hD21},
        cidr \in {CidGipc, CidDc}}

\* a Cortex-M33 part (architecture V8) over DEVARCH and DEVTYPE values
V8Leaves ==
    {Leaf(W(0, 4), PidrLo(rev, \hBB, \hD21), CidDc, \h5A, devarch, devtype) :
        rev \in {0, 1},
        devarch \in {W(\h4770, \h2A04), W(\h4770, \h6A15), W(\h4770, \h1A02),
                     W(\h4770, \h9999), W(\h4760, \h2A04), ZeroW},
        devtype \in {ZeroW, W(0, \h31), W(0, \h13)}}

\* components whose CIDR is not the preamble, with ROM table entries behind
BadPreamble ==
    {Component(W(0, 4), PidrLo(0, \hBB, \h00C), cidr, 0, ZeroW, ZeroW,
               <<EntryToA>>, ZeroW, ZeroW) :
        cidr \in {W(\hB105, \hE00C), W(\hB104, \h100D), ZeroW, W(\hB105, \h100F)}}

RootHeads ==
    {<<>>, <<EntryToA>>, <<EntryToA, EntryToB>>, <<EntryNotPresentA, EntryToB>>,
     <<EntryToA, ZeroW, EntryToB>>, <<EntryToNothing, EntryToA>>, <<EntrySelf>>,
     <<EntryToA, EntrySelf>>}

CompsA ==
    {Leaf(W(0, 4), PidrLo(2, \hBB, \h00C), CidGipc, \hC3, ZeroW, ZeroW),
     Leaf(W(0, 4), PidrLo(3, \hBB, \h002), CidGipc, 0, ZeroW, ZeroW),
     Leaf(W(0, 4), PidrLo(0, \hBB, \hC09), CidDc, 0, ZeroW, ZeroW),
     Leaf(ZeroW, PidrLo(0, \hA0, \h410), CidDc, 0, ZeroW, ZeroW),
     Leaf(W(0, 4), PidrLo(0, \hBB, \h00C), W(\hB105, \hE00C), 0, ZeroW, ZeroW),
     Table(<<EntryAToB>>, ZeroW, ZeroW),
     Table(<<EntryAToRoot>>, ZeroW, ZeroW),
     Table(<<>>, ZeroW, ZeroW)}

CompsB ==
    {Leaf(W(0, 4), PidrLo(0, \hBB, \h000), CidGipc, 0, ZeroW, ZeroW),
     Leaf(W(0, 4), PidrLo(0, \hBB, \h123), CidGipc, 0, ZeroW, ZeroW),
     Table(<<EntryBToA>>, ZeroW, ZeroW)}

\* tables that have no zero entry among the first 960
LongTables ==
    {Table(<<EntryToA>>, fill, last) :
        fill \in {EntryNotPresentA, EntryToNothing},
        last \in {EntryToB, EntryNotPresentA}}

RomScenarios ==
    {[a \in {RootAddr} |-> c] : c \in RootLeaves \cup V8Leaves \cup BadPreamble}
    \cup {[a \in {RootAddr, AddrA, AddrB} |->
             IF a = RootAddr THEN Table(h, ZeroW, ZeroW)
             ELSE IF a = AddrA THEN ca ELSE cb] :
          h \in RootHeads, ca \in CompsA, cb \in CompsB}
    \cup {[a \in {RootAddr, AddrA, AddrB} |->
             IF a = RootAddr THEN t
             ELSE IF a = AddrA THEN ca ELSE cb] :
          t \in LongTables,
          ca \in {Leaf(W(0, 4), PidrLo(2, \hBB, \h00C), CidGipc, 0, ZeroW, ZeroW)},
          cb \in {Leaf(W(0, 4), PidrLo(0, \hBB, \h000), CidGipc, 0, ZeroW, ZeroW),
                  Leaf(W(0, 4), PidrLo(0, \hBB, \h123), CidGipc, 0, ZeroW, ZeroW)}}

NoReturn == [Frame(ZeroW, 0, 0) EXCEPT !.stage = "none"]

\* before adiv5_component_probe is called; BASE has its low bits set
InitProbe ==
    /\ rom \in RomScenarios
    /\ apbase = W(\hE00F, \hF003)
    /\ stack = <<>>
    /\ cpc = "idle"
    /\ cret = NoReturn

\* one memory content, for the specifications of the other operations
ProbeIdle ==
    /\ InitProbe
    /\ rom = [a \in {RootAddr} |->
                Leaf(W(0, 4), PidrLo(0, \hBB, \h00C), CidGipc, 0, ZeroW, ZeroW)]

\* ------------------------------------------------------------------------
\* EFM32: the device table and efm32_probe
\* ------------------------------------------------------------------------
\* pages of the longest erase
MaxPages == 2

EFM32_UNKNOWN_FAMILY == 9999

\* the null device pointer: a record that is no row of the table
NULL ==
    [family_id |-> 0, di_version |-> 0, name |-> "NULL", flash_page_size |-> 0,
     msc_addr |-> <<0, 0>>, user_data_size |-> 0, bootloader_size |-> 0]

EFM32_INFO == W(\h0FE0, \h0000)

EFM32_USER_DATA == EFM32_INFO

EFM32_BOOTLOADER == U32Plus(EFM32_INFO, W(\h0001, \h0000))

SRAM_BASE == W(\h2000, \h0000)

efm32_devices == <<
    [family_id |-> 71, di_version |-> 1, name |-> "EFM32G", flash_page_size |-> 512,
     msc_addr |-> W(\h400C, \h0000), user_data_size |-> 512, bootloader_size |-> 0],
    [family_id |-> 72, di_version |-> 1, name |-> "EFM32GG", flash_page_size |-> 2048,
     msc_addr |-> W(\h400C, \h0000), user_data_size |-> 4096, bootloader_size |-> 0],
    [family_id |-> 73, di_version |-> 1, name |-> "EFM32TG", flash_page_size |-> 512,
     msc_addr |-> W(\h400C, \h0000), user_data_size |-> 512, bootloader_size |-> 0],
    [family_id |-> 74, di_version |-> 1, name |-> "EFM32LG", flash_page_size |-> 2048,
     msc_addr |-> W(\h400C, \h0000), user_data_size |-> 2048, bootloader_size |-> 0],
    [family_id |-> 75, di_version |-> 1, name |-> "EFM32WG", flash_page_size |-> 2048,
     msc_addr |-> W(\h400C, \h0000), user_data_size |-> 2048, bootloader_size |-> 0],
    [family_id |-> 76, di_version |-> 1, name |-> "EFM32ZG", flash_page_size |-> 1024,
     msc_addr |-> W(\h400C, \h0000), user_data_size |-> 1024, bootloader_size |-> 0],
    [family_id |-> 77, di_version |-> 1, name |-> "EFM32HG", flash_page_size |-> 1024,
     msc_addr |-> W(\h400C, \h0000), user_data_size |-> 1024, bootloader_size |-> 0],
    [family_id |-> 120, di_version |-> 2, name |-> "EZR32WG", flash_page_size |-> 2048,
     msc_addr |-> W(\h400C, \h0000), user_data_size |-> 2048, bootloader_size |-> 0],
    [family_id |-> 121, di_version |-> 2, name |-> "EZR32LG", flash_page_size |-> 2048,
     msc_addr |-> W(\h400C, \h0000), user_data_size |-> 2048, bootloader_size |-> 0],
    [family_id |-> 122, di_version |-> 2, name |-> "EZR32HG", flash_page_size |-> 1024,
     msc_addr |-> W(\h400C, \h0000), user_data_size |-> 1024, bootloader_size |-> 0],
    [family_id |-> 81, di_version |-> 3, name |-> "EFM32PG1B", flash_page_size |-> 2048,
     msc_addr |-> W(\h400E, \h0000), user_data_size |-> 2048, bootloader_size |-> 10240],
    [family_id |-> 83, di_version |-> 3, name |-> "EFM32JG1B", flash_page_size |-> 2048,
     msc_addr |-> W(\h400E, \h0000), user_data_size |-> 2048, bootloader_size |-> 10240],
    [family_id |-> 85, di_version |-> 3, name |-> "EFM32PG12B", flash_page_size |-> 2048,
     msc_addr |-> W(\h400E, \h0000), user_data_size |-> 2048, bootloader_size |-> 32768],
    [family_id |-> 87, di_version |-> 3, name |-> "EFM32JG12B", flash_page_size |-> 2048,
     msc_addr |-> W(\h400E, \h0000), user_data_size |-> 2048, bootloader_size |-> 32768],
    [family_id |-> 100, di_version |-> 3, name |-> "EFM32GG11B", flash_page_size |-> 4096,
     msc_addr |-> W(\h4000, \h0000), user_data_size |-> 4096, bootloader_size |-> 32768],
    [family_id |-> 103, di_version |-> 3, name |-> "EFM32TG11B", flash_page_size |-> 2048,
     msc_addr |-> W(\h4000, \h0000), user_data_size |-> 2048, bootloader_size |-> 18432],
    [family_id |-> 106, di_version |-> 3, name |-> "EFM32GG12B", flash_page_size |-> 2048,
     msc_addr |-> W(\h4000, \h0000), user_data_size |-> 2048, bootloader_size |-> 32768],
    [family_id |-> 16, di_version |-> 3, name |-> "EFR32MG1P", flash_page_size |-> 2048,
     msc_addr |-> W(\h400E, \h0000), user_data_size |-> 2048, bootloader_size |-> 10240],
    [family_id |-> 17, di_version |-> 3, name |-> "EFR32MG1B", flash_page_size |-> 2048,
     msc_addr |-> W(\h400E, \h0000), user_data_size |-> 2048, bootloader_size |-> 10240],
    [family_id |-> 18, di_version |-> 3, name |-> "EFR32MG1V", flash_page_size |-> 2048,
     msc_addr |-> W(\h400E, \h0000), user_data_size |-> 2048, bootloader_size |-> 10240],
    [family_id |-> 19, di_version |-> 3, name |-> "EFR32BG1P", flash_page_size |-> 2048,
     msc_addr |-> W(\h400E, \h0000), user_data_size |-> 2048, bootloader_size |-> 10240],
    [family_id |-> 20, di_version |-> 3, name |-> "EFR32BG1B", flash_page_size |-> 2048,
     msc_addr |-> W(\h400E, \h0000), user_data_size |-> 2048, bootloader_size |-> 10240],
    [family_id |-> 21, di_version |-> 3, name |-> "EFR32BG1V", flash_page_size |-> 2048,
     msc_addr |-> W(\h400E, \h0000), user_data_size |-> 2048, bootloader_size |-> 10240],
    [family_id |-> 25, di_version |-> 3, name |-> "EFR32FG1P", flash_page_size |-> 2048,
     msc_addr |-> W(\h400E, \h0000), user_data_size |-> 2048, bootloader_size |-> 10240],
    [family_id |-> 26, di_version |-> 3, name |-> "EFR32FG1B", flash_page_size |-> 2048,
     msc_addr |-> W(\h400E, \h0000), user_data_size |-> 2048, bootloader_size |-> 10240],
    [family_id |-> 27, di_version |-> 3, name |-> "EFR32FG1V", flash_page_size |-> 2048,
     msc_addr |-> W(\h400E, \h0000), user_data_size |-> 2048, bootloader_size |-> 10240],
    [family_id |-> 28, di_version |-> 3, name |-> "EFR32MG12P", flash_page_size |-> 2048,
     msc_addr |-> W(\h400E, \h0000), user_data_size |-> 2048, bootloader_size |-> 32768],
    [family_id |-> 29, di_version |-> 3, name |-> "EFR32MG12B", flash_page_size |-> 2048,
     msc_addr |-> W(\h400E, \h0000), user_data_size |-> 2048, bootloader_size |-> 32768],
    [family_id |-> 30, di_version |-> 3, name |-> "EFR32MG12V", flash_page_size |-> 2048,
     msc_addr |-> W(\h400E, \h0000), user_data_size |-> 2048, bootloader_size |-> 32768],
    [family_id |-> 31, di_version |-> 3, name |-> "EFR32BG12P", flash_page_size |-> 2048,
     msc_addr |-> W(\h400E, \h0000), user_data_size |-> 2048, bootloader_size |-> 32768],
    [family_id |-> 32, di_version |-> 3, name |-> "EFR32BG12B", flash_page_size |-> 2048,
     msc_addr |-> W(\h400E, \h0000), user_data_size |-> 2048, bootloader_size |-> 32768],
    [family_id |-> 33, di_version |-> 3, name |-> "EFR32BG12V", flash_page_size |-> 2048,
     msc_addr |-> W(\h400E, \h0000), user_data_size |-> 2048, bootloader_size |-> 32768],
    [family_id |-> 37, di_version |-> 3, name |-> "EFR32FG12P", flash_page_size |-> 2048,
     msc_addr |-> W(\h400E, \h0000), user_data_size |-> 2048, bootloader_size |-> 32768],
    [family_id |-> 38, di_version |-> 3, name |-> "EFR32FG12B", flash_page_size |-> 2048,
     msc_addr |-> W(\h400E, \h0000), user_data_size |-> 2048, bootloader_size |-> 32768],
    [family_id |-> 39, di_version |-> 3, name |-> "EFR32FG12V", flash_page_size |-> 2048,
     msc_addr |-> W(\h400E, \h0000), user_data_size |-> 2048, bootloader_size |-> 32768],
    [family_id |-> 40, di_version |-> 3, name |-> "EFR32MG13P", flash_page_size |-> 2048,
     msc_addr |-> W(\h400E, \h0000), user_data_size |-> 2048, bootloader_size |-> 16384],
    [family_id |-> 41, di_version |-> 3, name |-> "EFR32MG13B", flash_page_size |-> 2048,
     msc_addr |-> W(\h400E, \h0000), user_data_size |-> 2048, bootloader_size |-> 16384],
    [family_id |-> 42, di_version |-> 3, name |-> "EFR32MG13V", flash_page_size |-> 2048,
     msc_addr |-> W(\h400E, \h0000), user_data_size |-> 2048, bootloader_size |-> 16384],
    [family_id |-> 43, di_version |-> 3, name |-> "EFR32BG13P", flash_page_size |-> 2048,
     msc_addr |-> W(\h400E, \h0000), user_data_size |-> 2048, bootloader_size |-> 16384],
    [family_id |-> 44, di_version |-> 3, name |-> "EFR32BG13B", flash_page_size |-> 2048,
     msc_addr |-> W(\h400E, \h0000), user_data_size |-> 2048, bootloader_size |-> 16384],
    [family_id |-> 45, di_version |-> 3, name |-> "EFR32BG13V", flash_page_size |-> 2048,
     msc_addr |-> W(\h400E, \h0000), user_data_size |-> 2048, bootloader_size |-> 16384],
    [family_id |-> 45, di_version |-> 3, name |-> "EFR32ZG13P", flash_page_size |-> 2048,
     msc_addr |-> W(\h400E, \h0000), user_data_size |-> 2048, bootloader_size |-> 16384],
    [family_id |-> 49, di_version |-> 3, name |-> "EFR32FG13P", flash_page_size |-> 2048,
     msc_addr |-> W(\h400E, \h0000), user_data_size |-> 2048, bootloader_size |-> 16384],
    [family_id |-> 50, di_version |-> 3, name |-> "EFR32FG13B", flash_page_size |-> 2048,
     msc_addr |-> W(\h400E, \h0000), user_data_size |-> 2048, bootloader_size |-> 16384],
    [family_id |-> 51, di_version |-> 3, name |-> "EFR32FG13V", flash_page_size |-> 2048,
     msc_addr |-> W(\h400E, \h0000), user_data_size |-> 2048, bootloader_size |-> 16384],
    [family_id |-> 52, di_version |-> 3, name |-> "EFR32MG14P", flash_page_size |-> 2048,
     msc_addr |-> W(\h400E, \h0000), user_data_size |-> 2048, bootloader_size |-> 16384],
    [family_id |-> 53, di_version |-> 3, name |-> "EFR32MG14B", flash_page_size |-> 2048,
     msc_addr |-> W(\h400E, \h0000), user_data_size |-> 2048, bootloader_size |-> 16384],
    [family_id |-> 54, di_version |-> 3, name |-> "EFR32MG14V", flash_page_size |-> 2048,
     msc_addr |-> W(\h400E, \h0000), user_data_size |-> 2048, bootloader_size |-> 16384],
    [family_id |-> 55, di_version |-> 3, name |-> "EFR32BG14P", flash_page_size |-> 2048,
     msc_addr |-> W(\h400E, \h0000), user_data_size |-> 2048, bootloader_size |-> 16384],
    [family_id |-> 56, di_version |-> 3, name |-> "EFR32BG14B", flash_page_size |-> 2048,
     msc_addr |-> W(\h400E, \h0000), user_data_size |-> 2048, bootloader_size |-> 16384],
    [family_id |-> 57, di_version |-> 3, name |-> "EFR32BG14V", flash_page_size |-> 2048,
     msc_addr |-> W(\h400E, \h0000), user_data_size |-> 2048, bootloader_size |-> 16384],
    [family_id |-> 58, di_version |-> 3, name |-> "EFR32ZG14P", flash_page_size |-> 2048,
     msc_addr |-> W(\h400E, \h0000), user_data_size |-> 2048, bootloader_size |-> 16384],
    [family_id |-> 61, di_version |-> 3, name |-> "EFR32FG14P", flash_page_size |-> 2048,
     msc_addr |-> W(\h400E, \h0000), user_data_size |-> 2048, bootloader_size |-> 16384],
    [family_id |-> 62, di_version |-> 3, name |-> "EFR32FG14B", flash_page_size |-> 2048,
     msc_addr |-> W(\h400E, \h0000), user_data_size |-> 2048, bootloader_size |-> 16384],
    [family_id |-> 63, di_version |-> 3, name |-> "EFR32FG14V", flash_page_size |-> 2048,
     msc_addr |-> W(\h400E, \h0000), user_data_size |-> 2048, bootloader_size |-> 16384],
    [family_id |-> 128, di_version |-> 4, name |-> "EFR32xG21", flash_page_size |-> 8192,
     msc_addr |-> W(\h4003, \h0000), user_data_size |-> 1024, bootloader_size |-> 0],
    [family_id |-> 129, di_version |-> 4, name |-> "EFR32xG21", flash_page_size |-> 8192,
     msc_addr |-> W(\h4003, \h0000), user_data_size |-> 1024, bootloader_size |-> 0],
    [family_id |-> 130, di_version |-> 4, name |-> "EFR32xG21", flash_page_size |-> 8192,
     msc_addr |-> W(\h4003, \h0000), user_data_size |-> 1024, bootloader_size |-> 0],
    [family_id |-> 221, di_version |-> 4, name |-> "EFR32xG22", flash_page_size |-> 8192,
     msc_addr |-> W(\h4003, \h0000), user_data_size |-> 1024, bootloader_size |-> 0],
    [family_id |-> 222, di_version |-> 4, name |-> "EFR32xG22", flash_page_size |-> 8192,
     msc_addr |-> W(\h4003, \h0000), user_data_size |-> 1024, bootloader_size |-> 0],
    [family_id |-> 223, di_version |-> 4, name |-> "EFR32xG22", flash_page_size |-> 8192,
     msc_addr |-> W(\h4003, \h0000), user_data_size |-> 1024, bootloader_size |-> 0]
>>

efm32_devices_nb == Len(efm32_devices)

EFM32_DI_PART_FAMILY_OFST == 16

EFM32_DI_PART_FAMILY_MASK == W(0, \hFF)

EFM32_DI_V4_PART_FAMILYNUM_OFST == 16

EFM32_DI_V4_PART_FAMILY_OFST == 24

EFM32_DI_V4_PART_FAMILYNUM_MASK == W(0, \h3F)

EFM32_DI_V4_PART_FAMILY_MASK == W(0, \h3F)

Efm32DiVersion_V2V3Swapped(ap_idcode) ==
    IF ap_idcode = W(\h2BA0, \h1477) THEN 2
    ELSE IF ap_idcode = W(\h0BC1, \h1477) THEN 3
    ELSE IF ap_idcode = W(\h6BA0, \h2477) THEN 4
    ELSE 0

\* the idcode check of efm32_probe; 0 stands for "return false"
Efm32DiVersion(ap_idcode) ==
    IF ap_idcode = W(\h2BA0, \h1477) THEN 3
    ELSE IF ap_idcode = W(\h0BC1, \h1477) THEN 2
    ELSE IF ap_idcode = W(\h6BA0, \h2477) THEN 4
    ELSE 0

\* (uint8_t) of a 32-bit value
U8(w) == Lo(w) % 256

\* efm32_read_part_family on the PART register value reg
efm32_read_part_family(reg, di_version) ==
    IF di_version \in {1, 2, 3}
    THEN U8(U32And(U32Shr(reg, EFM32_DI_PART_FAMILY_OFST),
                   EFM32_DI_PART_FAMILY_MASK))
    ELSE IF di_version = 4
    THEN (U8(U32And(U32Shr(reg, EFM32_DI_V4_PART_FAMILYNUM_OFST),
                    EFM32_DI_V4_PART_FAMILYNUM_MASK))
          + U8(U32And(U32Shr(reg, EFM32_DI_V4_PART_FAMILY_OFST),
                      EFM32_DI_V4_PART_FAMILY_MASK))) % 256
    ELSE 0

\* the search loop of efm32_lookup_device_index from index k on
RECURSIVE FamilyScan(_, _)
FamilyScan(k, part_family) ==
    IF k >= efm32_devices_nb THEN EFM32_UNKNOWN_FAMILY
    ELSE IF efm32_devices[k + 1].family_id = part_family THEN k
    ELSE FamilyScan(k + 1, part_family)

efm32_lookup_device_index_Last(reg, di_version) ==
    LET fam  == efm32_read_part_family(reg, di_version)
        hits == {k \in 0 .. (efm32_devices_nb - 1) :
                    efm32_devices[k + 1].family_id = fam}
    IN  IF hits = {} THEN 0
        ELSE CHOOSE k \in hits : \A m \in hits : m <= k

efm32_lookup_device_index(reg, di_version) ==
    FamilyScan(0, efm32_read_part_family(reg, di_version))

efm32_get_device(index) ==
    IF index < 0 \/ index >= efm32_devices_nb THEN NULL
    ELSE efm32_devices[index + 1]

DriverTag_IndexPlus48(di_version, device_index) ==
    <<(di_version + 48) % 256, 8, ((device_index % 256) + 48) % 256, 8>>

\* snprintf(variant_string, ..., "%c\b%c\b%s %d F%d %s", di_version + 48,
\* (uint8_t)device_index + 32, ...): the four bytes before the name
DriverTag(di_version, device_index) ==
    <<(di_version + 48) % 256, 8, ((device_index % 256) + 32) % 256, 8>>

\* t->driver[0] - 48
TagDiVersion(driver) == driver[1] - 48

\* t->driver[2] - 32
TagDeviceIndex(driver) == driver[3] - 32

\* the driver string the Cortex-M probe leaves: "ARM Cortex-M"
CortexmDriver == <<65, 82, 77, 32>>

\* PART register values: every family of the table and some of none, with
\* the two V4 fields in bits 16..21 and 24..29
PartValues ==
    {W(efm32_devices[k].family_id, 1234) : k \in 1 .. efm32_devices_nb}
        \cup {W(0, 1), W(\h00FF, 7), W(\h0115, 21), W(\h3F3F, 22),
              W(\h4080, 1), W(\h0A3F, 5)}

ProbeIdcodes ==
    {W(\h2BA0, \h1477), W(\h0BC1, \h1477), W(\h6BA0, \h2477), W(\h0BA0, \h1477)}

\* which of the up to three calloc calls of efm32_add_flash succeed: all of
\* them, or all but one
CallocOutcomes ==
    {[c \in 1 .. 3 |-> c # failed] : failed \in 0 .. 3}

\* MSIZE: SRAM KiB in the high half, flash KiB in the low half
MsizeValue == W(32, 256)

\* efm32_add_flash: the region, or nothing when calloc fails
efm32_add_flash(flash, callocOk, addr, length, page_size) ==
    IF callocOk
    THEN Append(flash, [start |-> addr, length |-> length, blocksize |-> page_size])
    ELSE flash

\* the target after a successful probe
Efm32Setup(t, di_version, device_index, ok) ==
    LET device    == efm32_get_device(device_index)
        flash_kib == Lo(MsizeValue)
        ram_kib   == Hi(MsizeValue)
        f0 == efm32_add_flash(t.flash, ok[1], ZeroW, flash_kib * 1024,
                              device.flash_page_size)
        f1 == IF device.user_data_size # 0
              THEN efm32_add_flash(f0, ok[2], EFM32_USER_DATA,
                                   device.user_data_size, device.flash_page_size)
              ELSE f0
        f2 == IF device.bootloader_size # 0
              THEN efm32_add_flash(f1, ok[3], EFM32_BOOTLOADER,
                                   device.bootloader_size, device.flash_page_size)
              ELSE f1
    IN  [driver  |-> DriverTag(di_version, device_index),
         options |-> t.options \cup {"INHIBIT_SRST"},
         ram     |-> Append(t.ram, [start |-> SRAM_BASE, length |-> ram_kib * 1024]),
         flash   |-> f2,
         cmds    |-> Append(t.cmds, "EFM32")]

\* efm32_probe(t)
efm32_probe ==
    /\ pev.ret = "none"
    /\ \E ap_idcode \in ProbeIdcodes, part \in PartValues,
          ok \in CallocOutcomes :
        LET di_version   == Efm32DiVersion(ap_idcode)
            device_index == efm32_lookup_device_index(part, di_version)
        IN  IF di_version = 0
            THEN /\ pev' = [idcode |-> ap_idcode, part |-> part, di |-> 0,
                            index |-> 0, ret |-> "false"]
                 /\ UNCHANGED tgt
            ELSE IF \/ device_index = EFM32_UNKNOWN_FAMILY
                    \/ efm32_get_device(device_index) = NULL
            THEN /\ pev' = [idcode |-> ap_idcode, part |-> part,
                            di |-> di_version, index |-> device_index,
                            ret |-> "false"]
                 /\ UNCHANGED tgt
            ELSE /\ pev' = [idcode |-> ap_idcode, part |-> part,
                            di |-> di_version, index |-> device_index,
                            ret |-> "true"]
                 /\ tgt' = Efm32Setup(tgt, di_version, device_index, ok)
    /\ UNCHANGED <<er, elog, ea, ealog, late, aapVars>>

\* ------------------------------------------------------------------------
\* EFM32: efm32_flash_erase
\* ------------------------------------------------------------------------
EFM32_MSC_WRITECTRL(msc) ==
    U32Add(msc, IF msc = W(\h4003, \h0000) THEN \h0C ELSE \h08)

EFM32_MSC_WRITECMD(msc) ==
    U32Add(msc, IF msc = W(\h4003, \h0000) THEN \h10 ELSE \h0C)

EFM32_MSC_ADDRB(msc) ==
    U32Add(msc, IF msc = W(\h4003, \h0000) THEN \h14 ELSE \h10)

EFM32_MSC_STATUS(msc) == U32Add(msc, \h01C)

EFM32_MSC_LOCK(msc) ==
    U32Add(msc, IF msc = W(\h4003, \h0000) \/ msc = W(\h400C, \h0000)
                THEN \h3C ELSE \h40)

EFM32_MSC_LOCK_LOCKKEY == W(0, \h1B71)

EFM32_MSC_WRITECMD_LADDRIM == W(0, 1)

EFM32_MSC_WRITECMD_ERASEPAGE == W(0, 2)

EFM32_MSC_STATUS_BUSY == W(0, 1)

\* what a STATUS read may return: idle, busy with WDATAREADY, and idle
\* with LOCKED and INVADDR
StatusReads == {ZeroW, W(0, 9), W(0, 6)}

MscWr(addr, value) == [op |-> "write", addr |-> addr, val |-> value]

MscRd(addr, value) == [op |-> "read", addr |-> addr, val |-> value]

\* the busy polls since the last write
RECURSIVE BusyPolls(_)
BusyPolls(l) ==
    IF l = <<>> \/ l[Len(l)].op # "read" THEN 0
    ELSE 1 + BusyPolls(SubSeq(l, 1, Len(l) - 1))

EraseIdle ==
    [pc |-> "idle", blocksize |-> 0, addr |-> ZeroW, len |-> 0, msc |-> ZeroW,
     addr0 |-> ZeroW, len0 |-> 0, err |-> FALSE, ret |-> "none"]

\* the lengths erased: nothing, less than a page, one page, one byte more,
\* the longest run of pages
EraseLens(bs) == {0, 1, bs, bs + 1, MaxPages * bs}

\* entry of efm32_flash_erase(f, addr, len) up to the WREN write
EraseCall ==
    /\ er.pc = "idle"
    /\ er.ret = "none"
    /\ ea.pc = "idle"
    /\ pev.ret = "true"
    /\ \E k \in 1 .. Len(tgt.flash) :
        LET f == tgt.flash[k] IN
        \E addr \in {f.start}, n \in EraseLens(f.blocksize) :
            LET device == efm32_get_device(TagDeviceIndex(tgt.driver))
            IN  IF device = NULL
                THEN /\ er' = [er EXCEPT !.ret = "true", !.pc = "done",
                                         !.addr0 = addr, !.len0 = n]
                     /\ UNCHANGED elog
                ELSE /\ er' = [pc |-> "loop", blocksize |-> f.blocksize,
                               addr |-> addr, len |-> n,
                               msc |-> device.msc_addr,
                               addr0 |-> addr, len0 |-> n, err |-> FALSE,
                               ret |-> "none"]
                     /\ elog' = <<MscWr(EFM32_MSC_LOCK(device.msc_addr),
                                        EFM32_MSC_LOCK_LOCKKEY),
                                  MscWr(EFM32_MSC_WRITECTRL(device.msc_addr),
                                        W(0, 1))>>
    /\ UNCHANGED <<tgt, pev, ea, ealog, late, aapVars>>

\* while (len): the three writes that erase the page at addr
ErasePage ==
    /\ er.pc = "loop"
    /\ er.len # 0
    /\ elog' = elog \o
          <<MscWr(EFM32_MSC_ADDRB(er.msc), er.addr),
            MscWr(EFM32_MSC_WRITECMD(er.msc), EFM32_MSC_WRITECMD_LADDRIM),
            MscWr(EFM32_MSC_WRITECMD(er.msc), EFM32_MSC_WRITECMD_ERASEPAGE)>>
    /\ er' = [er EXCEPT !.pc = "poll"]
    /\ late' = FALSE
    /\ UNCHANGED <<tgt, pev, ea, ealog, aapVars>>

EraseRemaining_DropPartial(left, blocksize) ==
    IF left >= 2 * blocksize THEN left - blocksize ELSE 0

\* if (len > f->blocksize) len -= f->blocksize; else len = 0;
EraseRemaining(left, blocksize) ==
    IF left > blocksize THEN left - blocksize ELSE 0

IsBusy_Never(status) == FALSE

\* target_mem_read32(STATUS) & EFM32_MSC_STATUS_BUSY
IsBusy(status) == U32And(status, EFM32_MSC_STATUS_BUSY) # ZeroW

PollErrorResult_Ignored(error) == "busy"

\* if (target_check_error(t)) return -1;
PollErrorResult(error) == IF error THEN "-1" ELSE "busy"

\* one read of STATUS in the poll; target_check_error when it shows BUSY;
\* the advance to the next page when it does not
ErasePoll ==
    /\ er.pc = "poll"
    /\ \E status \in StatusReads :
        /\ elog' = Append(elog, MscRd(EFM32_MSC_STATUS(er.msc), status))
        /\ IF IsBusy(status)
           THEN \E error \in BOOLEAN :
                IF PollErrorResult(error) = "-1"
                THEN er' = [er EXCEPT !.pc = "done", !.ret = "-1",
                                      !.err = error]
                ELSE /\ BusyPolls(elog) < MaxPolls
                     /\ er' = [er EXCEPT !.err = error]
           ELSE er' = [er EXCEPT !.pc = "loop",
                          !.addr = U32Add(er.addr, er.blocksize),
                          !.len = EraseRemaining(er.len, er.blocksize)]
    /\ late' = (late /\ er'.pc = "poll")
    /\ UNCHANGED <<tgt, pev, ea, ealog, aapVars>>

\* return 0
EraseDone ==
    /\ er.pc = "loop"
    /\ er.len = 0
    /\ er' = [er EXCEPT !.pc = "done", !.ret = "0"]
    /\ UNCHANGED <<tgt, pev, elog, ea, ealog, late, aapVars>>

\* ------------------------------------------------------------------------
\* EFM32: efm32_cmd_erase_all
\* ------------------------------------------------------------------------
EFM32_MSC_MASSLOCK(msc) ==
    U32Add(msc, IF msc = W(\h4003, \h0000) THEN \h40 ELSE \h54)

EFM32_MSC_MASSLOCK_LOCKKEY == W(0, \h631A)

EFM32_MSC_WRITECMD_ERASEMAIN0 == W(0, \h0100)

EraseAllIdle == [pc |-> "idle", msc |-> ZeroW, err |-> FALSE, ret |-> "none"]

\* entry of efm32_cmd_erase_all up to the ERASEMAIN0 command
EraseAllCall ==
    /\ ea.pc = "idle"
    /\ ea.ret = "none"
    /\ er.pc = "idle"
    /\ pev.ret = "true"
    /\ LET device == efm32_get_device(TagDeviceIndex(tgt.driver))
       IN  IF device = NULL
           THEN /\ ea' = [ea EXCEPT !.pc = "done", !.ret = "true"]
                /\ UNCHANGED ealog
           ELSE /\ ea' = [ea EXCEPT !.pc = "poll", !.msc = device.msc_addr]
                /\ ealog' = <<MscWr(EFM32_MSC_WRITECTRL(device.msc_addr),
                                    W(0, 1)),
                              MscWr(EFM32_MSC_MASSLOCK(device.msc_addr),
                                    EFM32_MSC_MASSLOCK_LOCKKEY),
                              MscWr(EFM32_MSC_WRITECMD(device.msc_addr),
                                    EFM32_MSC_WRITECMD_ERASEMAIN0)>>
    /\ late' = FALSE
    /\ UNCHANGED <<tgt, pev, er, elog, aapVars>>

\* one read of STATUS in the poll of efm32_cmd_erase_all; "return false" on
\* an error while BUSY, the relock and "return true" when BUSY is clear
EraseAllPoll ==
    /\ ea.pc = "poll"
    /\ \E status \in StatusReads :
        IF IsBusy(status)
        THEN /\ ealog' = Append(ealog, MscRd(EFM32_MSC_STATUS(ea.msc), status))
             /\ \E error \in BOOLEAN :
                 IF error
                 THEN ea' = [ea EXCEPT !.pc = "done", !.ret = "false",
                                       !.err = TRUE]
                 ELSE /\ BusyPolls(ealog) < MaxPolls
                      /\ UNCHANGED ea
        ELSE /\ ealog' = ealog \o
                   <<MscRd(EFM32_MSC_STATUS(ea.msc), status),
                     MscWr(EFM32_MSC_MASSLOCK(ea.msc), ZeroW)>>
             /\ ea' = [ea EXCEPT !.pc = "done", !.ret = "true"]
    /\ late' = (late /\ ea'.pc = "poll")
    /\ UNCHANGED <<tgt, pev, er, elog, aapVars>>

\* the time of a BUSY poll: 200 ms pass.  Neither poll loop reads a clock.
DeadlinePasses ==
    /\ er.pc = "poll" \/ ea.pc = "poll"
    /\ ~late
    /\ late' = TRUE
    /\ UNCHANGED <<tgt, pev, er, elog, ea, ealog, aapVars>>

\* ------------------------------------------------------------------------
\* EFM32: the Authentication Access Port
\* ------------------------------------------------------------------------
AAP_CMD == \h100

AAP_CMDKEY == \h104

AAP_STATUS == \h108

AAP_STATUS_LOCKED == W(0, 2)

AAP_STATUS_ERASEBUSY == W(0, 1)

CMDKEY == W(\hCFAC, \hC118)

\* IDR values of the AP handed to efm32_aap_probe: an AAP of revision 1, of
\* revision 2, of revision 0 with another variant, and a MEM-AP
AapIdrValues ==
    {W(\h16E6, \h0001), W(\h26E6, \h0001), W(\h06E6, \h00F1),
     W(\h2477, \h0011)}

\* what a read of AAP_STATUS may return
AapStatusReads == {ZeroW, AAP_STATUS_ERASEBUSY, AAP_STATUS_LOCKED, W(0, 3)}

\* (uint16_t)((ap->idr & 0xF0000000) >> 28)
AapRevision(idr) == Lo(U32Shr(U32And(idr, W(\hF000, 0)), 28))

ApRd(reg, value) == [op |-> "read", reg |-> reg, val |-> value]

ApWr(reg, value) == [op |-> "write", reg |-> reg, val |-> value]

\* the reads of AAP_STATUS since the last write
RECURSIVE AapPolls(_)
AapPolls(l) ==
    IF l = <<>> \/ l[Len(l)].op # "read" THEN 0
    ELSE 1 + AapPolls(SubSeq(l, 1, Len(l) - 1))

AapIdle == [pc |-> "none", rev |-> 0, ret |-> "none"]

\* efm32_aap_probe(ap): a target with the erase_mass command for an AAP
efm32_aap_probe ==
    /\ ae.pc = "none"
    /\ \E idr \in AapIdrValues :
        IF IsEfm32Aap(idr)
        THEN ae' = [ae EXCEPT !.pc = "target", !.rev = AapRevision(idr)]
        ELSE ae' = [ae EXCEPT !.pc = "noaap"]
    /\ UNCHANGED <<tgt, pev, er, elog, ea, ealog, late, aelog>>

AapEraseInProgress_Never(status) == FALSE

\* if (status & AAP_STATUS_ERASEBUSY) return false;
AapEraseInProgress(status) ==
    U32And(status, AAP_STATUS_ERASEBUSY) # ZeroW

\* entry of efm32_aap_cmd_device_erase: the first read of STATUS
AapEraseCall ==
    /\ ae.pc = "target"
    /\ \E status \in AapStatusReads :
        /\ aelog' = <<ApRd(AAP_STATUS, status)>>
        /\ IF AapEraseInProgress(status)
           THEN ae' = [ae EXCEPT !.pc = "done", !.ret = "false"]
           ELSE ae' = [ae EXCEPT !.pc = "key"]
    /\ UNCHANGED <<tgt, pev, er, elog, ea, ealog, late>>

\* adiv5_ap_write(ap, AAP_CMDKEY, CMDKEY)
AapEraseKey ==
    /\ ae.pc = "key"
    /\ aelog' = Append(aelog, ApWr(AAP_CMDKEY, CMDKEY))
    /\ ae' = [ae EXCEPT !.pc = "cmd"]
    /\ UNCHANGED <<tgt, pev, er, elog, ea, ealog, late>>

\* adiv5_ap_write(ap, AAP_CMD, 1)
AapEraseCmd ==
    /\ ae.pc = "cmd"
    /\ aelog' = Append(aelog, ApWr(AAP_CMD, W(0, 1)))
    /\ ae' = [ae EXCEPT !.pc = "poll"]
    /\ UNCHANGED <<tgt, pev, er, elog, ea, ealog, late>>

AapPollContinues_LockedBit(status) ==
    U32And(status, AAP_STATUS_LOCKED) # ZeroW

\* do { status = adiv5_ap_read(ap, AAP_STATUS); }
\* while (status & AAP_STATUS_ERASEBUSY);
AapPollContinues(status) ==
    U32And(status, AAP_STATUS_ERASEBUSY) # ZeroW

\* one pass of the do-while loop
AapErasePoll ==
    /\ ae.pc = "poll"
    /\ \E status \in AapStatusReads :
        /\ aelog' = Append(aelog, ApRd(AAP_STATUS, status))
        /\ IF AapPollContinues(status)
           THEN /\ AapPolls(aelog) < MaxPolls
                /\ UNCHANGED ae
           ELSE ae' = [ae EXCEPT !.pc = "final"]
    /\ UNCHANGED <<tgt, pev, er, elog, ea, ealog, late>>

\* the last read of STATUS and "return true"
AapEraseFinish ==
    /\ ae.pc = "final"
    /\ \E status \in AapStatusReads :
        aelog' = Append(aelog, ApRd(AAP_STATUS, status))
    /\ ae' = [ae EXCEPT !.pc = "done", !.ret = "true"]
    /\ UNCHANGED <<tgt, pev, er, elog, ea, ealog, late>>

\* the target the Cortex-M probe hands to efm32_probe
CortexmTarget ==
    [driver |-> CortexmDriver, options |-> {}, ram |-> <<>>, flash |-> <<>>,
     cmds |-> <<>>]

InitEfm ==
    /\ tgt = CortexmTarget
    /\ pev = [idcode |-> ZeroW, part |-> ZeroW, di |-> 0, index |-> 0,
              ret |-> "none"]
    /\ er = EraseIdle
    /\ elog = <<>>
    /\ ea = EraseAllIdle
    /\ ealog = <<>>
    /\ late = FALSE
    /\ ae = AapIdle
    /\ aelog = <<>>

\* ------------------------------------------------------------------------
\* Specifications
\* ------------------------------------------------------------------------
\* the memory engine at rest
MemIdle ==
    /\ InitMem
    /\ memap = [apsel |-> 0, csw |-> W(\h2300, \h0040)]
    /\ mem0 = MemPattern(W(\h2000, \h0FF0), 3)

\* the DP before adiv5_dp_init is called
\* a DPv1 target whose APs are at consecutive apsel values
HwPlain == [aps |-> HwContiguous, dpidr |-> W(\h2BA0, \h1477)]

DpIdle ==
    /\ InitDp
    /\ idcode = W(\h0BA0, \h1477)
    /\ hw = HwPlain

Init == InitDp /\ hw = HwPlain /\ MemIdle /\ ProbeIdle /\ InitEfm

Next ==
    \/ DpInitEnter /\ UNCHANGED <<memVars, cpVars, efmVars>>
    \/ DpInitFirstRead /\ UNCHANGED <<memVars, cpVars, efmVars>>
    \/ DpInitPowerUp /\ UNCHANGED <<memVars, cpVars, efmVars>>
    \/ DpInitPowerWait /\ UNCHANGED <<memVars, cpVars, efmVars>>
    \/ DpInitResetReq /\ UNCHANGED <<memVars, cpVars, efmVars>>
    \/ TimeoutExpires /\ UNCHANGED <<memVars, cpVars, efmVars>>
    \/ DpInitResetWait /\ UNCHANGED <<memVars, cpVars, efmVars>>
    \/ DpInitResetRelease /\ UNCHANGED <<memVars, cpVars, efmVars>>
    \/ DpInitReleaseWait /\ UNCHANGED <<memVars, cpVars, efmVars>>
    \/ DpInitIdcode /\ UNCHANGED <<memVars, cpVars, efmVars>>
    \/ EnumBegin /\ UNCHANGED <<memVars, cpVars, efmVars>>
    \/ EnumNewAp /\ UNCHANGED <<memVars, cpVars, efmVars>>
    \/ EnumProbes /\ UNCHANGED <<memVars, cpVars, efmVars>>
    \/ EnumBaseCheck /\ UNCHANGED <<memVars, cpVars, efmVars>>
    \/ EnumDiscover /\ UNCHANGED <<memVars, cpVars, efmVars>>
    \/ DpInitFinish /\ UNCHANGED <<memVars, cpVars, efmVars>>
    \/ TargetFree /\ UNCHANGED <<memVars, cpVars, efmVars>>
    \/ TargetFreeDangling /\ UNCHANGED <<memVars, cpVars, efmVars>>

\* adiv5_dp_init and the targets it leaves behind
Spec == Init /\ [][Next]_vars

\* adiv5_dp_init on a target with an apsel gap between two APs
InitEnum ==
    /\ InitDp
    /\ hw = [aps |-> HwGap, dpidr |-> W(\h2BA0, \h1477)]
    /\ MemIdle
    /\ ProbeIdle
    /\ InitEfm

SpecEnum == InitEnum /\ [][Next]_vars

\* the power-up and reset sequence of adiv5_dp_init, on a DPv1 and a DPv2
InitBringUp ==
    /\ InitDp
    /\ hw.aps = HwContiguous
    /\ MemIdle
    /\ ProbeIdle
    /\ InitEfm

NextBringUp ==
    \/ DpInitEnter /\ UNCHANGED <<memVars, cpVars, efmVars>>
    \/ DpInitFirstRead /\ UNCHANGED <<memVars, cpVars, efmVars>>
    \/ DpInitPowerUp /\ UNCHANGED <<memVars, cpVars, efmVars>>
    \/ DpInitPowerWait /\ UNCHANGED <<memVars, cpVars, efmVars>>
    \/ DpInitResetReq /\ UNCHANGED <<memVars, cpVars, efmVars>>
    \/ TimeoutExpires /\ UNCHANGED <<memVars, cpVars, efmVars>>
    \/ DpInitResetWait /\ UNCHANGED <<memVars, cpVars, efmVars>>
    \/ DpInitResetRelease /\ UNCHANGED <<memVars, cpVars, efmVars>>
    \/ DpInitReleaseWait /\ UNCHANGED <<memVars, cpVars, efmVars>>
    \/ DpInitIdcode /\ UNCHANGED <<memVars, cpVars, efmVars>>
    \/ EnumBegin /\ UNCHANGED <<memVars, cpVars, efmVars>>

\* adiv5_dp_init keeps running and a timeout that was set expires
SpecBringUp ==
    /\ InitBringUp
    /\ [][NextBringUp]_vars
    /\ WF_vars(DpInitEnter /\ UNCHANGED <<memVars, cpVars, efmVars>>)
    /\ WF_vars(DpInitFirstRead /\ UNCHANGED <<memVars, cpVars, efmVars>>)
    /\ WF_vars(DpInitPowerUp /\ UNCHANGED <<memVars, cpVars, efmVars>>)
    /\ WF_vars(DpInitResetReq /\ UNCHANGED <<memVars, cpVars, efmVars>>)
    /\ WF_vars(TimeoutExpires /\ UNCHANGED <<memVars, cpVars, efmVars>>)
    /\ WF_vars(DpInitResetWait /\ UNCHANGED <<memVars, cpVars, efmVars>>)
    /\ WF_vars(DpInitResetRelease /\ UNCHANGED <<memVars, cpVars, efmVars>>)
    /\ WF_vars(DpInitReleaseWait /\ UNCHANGED <<memVars, cpVars, efmVars>>)
    /\ WF_vars(DpInitIdcode /\ UNCHANGED <<memVars, cpVars, efmVars>>)
    /\ WF_vars(EnumBegin /\ UNCHANGED <<memVars, cpVars, efmVars>>)

InitMemSpec == DpIdle /\ InitMem /\ ProbeIdle /\ InitEfm

\* a memory read followed by the write of the same buffer
NextMemSpec ==
    \/ adiv5_ap_read /\ UNCHANGED <<dpVars, cpVars, efmVars>>
    \/ MemReadCall /\ UNCHANGED <<dpVars, cpVars, efmVars>>
    \/ SetupSelect /\ UNCHANGED <<dpVars, cpVars, efmVars>>
    \/ SetupCswWrite /\ UNCHANGED <<dpVars, cpVars, efmVars>>
    \/ SetupTar /\ UNCHANGED <<dpVars, cpVars, efmVars>>
    \/ ReadPrime /\ UNCHANGED <<dpVars, cpVars, efmVars>>
    \/ ReadLoop /\ UNCHANGED <<dpVars, cpVars, efmVars>>
    \/ ReadCrossTar /\ UNCHANGED <<dpVars, cpVars, efmVars>>
    \/ ReadCrossDrw /\ UNCHANGED <<dpVars, cpVars, efmVars>>
    \/ ReadFinal /\ UNCHANGED <<dpVars, cpVars, efmVars>>
    \/ MemWriteCall /\ UNCHANGED <<dpVars, cpVars, efmVars>>
    \/ WriteLoop /\ UNCHANGED <<dpVars, cpVars, efmVars>>
    \/ WriteCrossTar /\ UNCHANGED <<dpVars, cpVars, efmVars>>
    \/ WriteDone /\ UNCHANGED <<dpVars, cpVars, efmVars>>

SpecMem == InitMemSpec /\ [][NextMemSpec]_vars

InitProbeSpec == DpIdle /\ MemIdle /\ InitProbe /\ InitEfm

\* adiv5_component_probe on the ROM table of one AP
NextProbeSpec ==
    \/ ProbeCall /\ UNCHANGED <<dpVars, memVars, efmVars>>
    \/ ProbeReadId /\ UNCHANGED <<dpVars, memVars, efmVars>>
    \/ ProbeLeaf /\ UNCHANGED <<dpVars, memVars, efmVars>>
    \/ ProbeEntry /\ UNCHANGED <<dpVars, memVars, efmVars>>
    \/ ProbeLoopEnd /\ UNCHANGED <<dpVars, memVars, efmVars>>
    \/ ProbeReturn /\ UNCHANGED <<dpVars, memVars, efmVars>>

SpecProbe == InitProbeSpec /\ [][NextProbeSpec]_vars

InitEfmSpec == DpIdle /\ MemIdle /\ ProbeIdle /\ InitEfm

\* efm32_probe on a target, then one efm32_flash_erase
NextEfm ==
    \/ efm32_probe /\ UNCHANGED <<dpVars, memVars, cpVars>>
    \/ EraseCall /\ UNCHANGED <<dpVars, memVars, cpVars>>
    \/ ErasePage /\ UNCHANGED <<dpVars, memVars, cpVars>>
    \/ ErasePoll /\ UNCHANGED <<dpVars, memVars, cpVars>>
    \/ EraseDone /\ UNCHANGED <<dpVars, memVars, cpVars>>
    \/ EraseAllCall /\ UNCHANGED <<dpVars, memVars, cpVars>>
    \/ EraseAllPoll /\ UNCHANGED <<dpVars, memVars, cpVars>>
    \/ DeadlinePasses /\ UNCHANGED <<dpVars, memVars, cpVars>>

SpecEfm == InitEfmSpec /\ [][NextEfm]_vars

\* efm32_aap_probe on an AP, then one erase_mass on the AAP target
NextAap ==
    \/ efm32_aap_probe /\ UNCHANGED <<dpVars, memVars, cpVars>>
    \/ AapEraseCall /\ UNCHANGED <<dpVars, memVars, cpVars>>
    \/ AapEraseKey /\ UNCHANGED <<dpVars, memVars, cpVars>>
    \/ AapEraseCmd /\ UNCHANGED <<dpVars, memVars, cpVars>>
    \/ AapErasePoll /\ UNCHANGED <<dpVars, memVars, cpVars>>
    \/ AapEraseFinish /\ UNCHANGED <<dpVars, memVars, cpVars>>

SpecAap == InitEfmSpec /\ [][NextAap]_vars

\* ------------------------------------------------------------------------
\* Properties of the reference counts
\* ------------------------------------------------------------------------
DpInitRunning ==
    pc \in {"bringup", "pwrreq", "pwrwait", "rstreq", "rstwait", "rstrel",
            "relwait", "dpidr", "enum", "loop", "probes", "basechk", "discover"}

\* C1: while adiv5_dp_init runs, after every step of the enumeration,
\* dp->refcnt is 1 plus the number of APs allocated and not yet freed.
C1_RefcntWhileInit ==
    DpInitRunning => dpRefcnt = 1 + Cardinality(LiveAps) /\ ~dpFreed

\* one AP has been created and freed again, another is alive, init still runs
C1_Witness ==
    /\ pc = "loop"
    /\ \E a, b \in Apsels : apState[a] = "freed" /\ apState[b] = "live"
    /\ dpRefcnt = 2

UnrefStep == ev'.op = "ap_unref" /\ ev'.res # "dangling"

\* C2: adiv5_ap_unref frees the AP exactly when its decrement brings
\* ap->refcnt to zero and then releases exactly one DP reference; otherwise
\* it frees nothing and leaves dp->refcnt alone; the DP is freed exactly when
\* its own count reaches zero.
C2_UnrefContract ==
    [][/\ UnrefStep =>
            LET a == ev'.ap IN
            /\ apState[a] = "live"
            /\ apRefcnt'[a] = apRefcnt[a] - 1
            /\ (apState'[a] = "freed") <=> (apRefcnt'[a] = 0)
            /\ apRefcnt'[a] = 0 => dpRefcnt' = dpRefcnt - 1
            /\ apRefcnt'[a] # 0 =>
                  /\ dpRefcnt' = dpRefcnt
                  /\ dpFreed' = dpFreed
                  /\ apState'[a] = "live"
            /\ \A b \in Apsels \ {a} : apState'[b] = apState[b]
       /\ (dpFreed' /\ ~dpFreed) <=> (dpRefcnt' = 0 /\ dpRefcnt # 0)
      ]_vars

\* the last reference on the last AP was dropped: AP freed, DP freed
C2_Witness ==
    /\ ev.op = "ap_unref"
    /\ ev.res = "freed"
    /\ dpFreed
    /\ dpRefcnt = 0

\* C3: every return of adiv5_dp_init has released the reference taken at
\* entry: dp->refcnt is the number of live APs, and the DP is freed if that
\* number is 0.
C3_ReturnReleasesInitRef ==
    (pc = "returned" /\ ~ub) =>
        /\ dpRefcnt = Cardinality(LiveAps)
        /\ (Cardinality(LiveAps) = 0 => dpFreed)

\* C4: an AP for which discovery found nothing usable and which no target
\* references has been freed by the time adiv5_dp_init has returned.
C4_UselessApFreed ==
    pc = "returned" =>
        \A a \in Apsels :
            (apDisc[a] \in {"nobase", "nocomp"} /\ tgtRef[a] = 0)
                => apState[a] = "freed"

\* C5: adiv5_new_ap returns an AP only for a non-zero IDR and then has taken
\* exactly one DP reference; when it returns NULL it has allocated nothing
\* and dp->refcnt is unchanged.
C5_NewApContract ==
    [][/\ ev'.op = "new_ap" =>
            /\ ev'.res = "ap" =>
                  /\ apState[i] = "none"
                  /\ apState'[i] = "live"
                  /\ apIdr'[i] # ZeroW
                  /\ dpRefcnt' = dpRefcnt + 1
            /\ ev'.res # "ap" =>
                  /\ apState' = apState
                  /\ dpRefcnt' = dpRefcnt
       /\ \A a \in Apsels : apState'[a] # "none" => apIdr'[a] # ZeroW
      ]_vars

\* the second AP has just been created
C5_Witness ==
    /\ ev.op = "new_ap"
    /\ ev.res = "ap"
    /\ ev.ap = 1
    /\ dpRefcnt = 3



\* ------------------------------------------------------------------------
\* Properties of the memory engine
\* ------------------------------------------------------------------------
\* the len bytes of target memory at [a, a + n)
TargetBytes(mem, a, n) == [k \in 1 .. n |-> MemByte(mem, U32Add(a, k - 1))]

\* C6: against the mocked MEM-AP adiv5_mem_read stores in dst exactly the
\* len bytes of target memory at [src, src + len), for every alignment,
\* across a 1 KiB boundary as well.
C6_ReadExact ==
    (mpc = "r_done" /\ xfer.len > 0) =>
        buf = TargetBytes(mem0, xfer.addr, xfer.len)

\* 8 bytes from 0x20000FFC: the last unit is the first after the boundary
C6_Witness ==
    /\ mpc = "r_done"
    /\ xfer.addr = W(\h2000, \h0FFC)
    /\ xfer.len = 8
    /\ Len(buf) = 8

\* C7: adiv5_mem_read followed by adiv5_mem_write of the same buffer to the
\* same address leaves the whole target memory unchanged.
C7_ReadWriteIdentity ==
    mpc = "w_done" => (mock.mem = mem0 /\ ~mock.stray)

\* 7 bytes from 0x20000FFD, byte by byte across the boundary, written back
C7_Witness ==
    /\ mpc = "w_done"
    /\ xfer.addr = W(\h2000, \h0FFD)
    /\ xfer.len = 7
    /\ bpos = 7

\* bits [31:10] of an address
Block(a) == W(Hi(a), Lo(a) - (Lo(a) % 1024))

IsTarWrite(e) == e.rnw = "W" /\ e.addr = ADIV5_AP_TAR

IsDrw(e) == e.addr = ADIV5_AP_DRW

\* C8: no DRW access is issued for a unit whose address differs in bits
\* [31:10] from the address last written to TAR; when the address crosses a
\* 1 KiB boundary TAR is rewritten with it before the next DRW access.
C8_TarFollowsBlock ==
    \A k \in 1 .. Len(log) :
        IsDrw(log[k]) =>
            /\ \E j \in 1 .. (k - 1) :
                /\ IsTarWrite(log[j])
                /\ \A m \in (j + 1) .. (k - 1) : ~IsTarWrite(log[m])
                /\ Block(log[j].value) = Block(log[k].unit)
            /\ \A j \in 1 .. (k - 1) :
                (/\ IsDrw(log[j])
                 /\ \A m \in (j + 1) .. (k - 1) : ~IsDrw(log[m])
                 /\ Block(log[j].unit) # Block(log[k].unit))
                    => (/\ j + 1 = k - 1
                        /\ IsTarWrite(log[k - 1])
                        /\ log[k - 1].value = log[k].unit)

\* a write has crossed into 0x20000C00 and has written the unit there
C8_Witness ==
    /\ op = "write"
    /\ \E k \in 2 .. Len(log) :
        /\ IsDrw(log[k])
        /\ log[k].rnw = "W"
        /\ log[k].unit = W(\h2000, \h0C00)
        /\ IsTarWrite(log[k - 1])

\* the transfer unit the alignment policy asks for
PolicyAlignOf(x) == IF x % 4 = 0 THEN 2 ELSE IF x % 2 = 0 THEN 1 ELSE 0

PolicyAlign(a, n) ==
    IF PolicyAlignOf(Lo(a)) < PolicyAlignOf(n) THEN PolicyAlignOf(Lo(a))
    ELSE PolicyAlignOf(n)

Wr(addr, value) == [rnw |-> "W", addr |-> addr, value |-> value]

Rd(addr) == [rnw |-> "R", addr |-> addr, value |-> ZeroW]

\* the accesses of the data units 1 .. count - 1, each followed by a TAR
\* rewrite and a priming read when the next address is in another block
RECURSIVE ExpectedDataReads(_, _, _)
ExpectedDataReads(a, unit, left) ==
    IF left = 0 THEN <<>>
    ELSE LET nx == U32Add(a, unit)
         IN  <<Rd(ADIV5_AP_DRW)>>
             \o (IF Block(nx) # Block(a)
                 THEN <<Wr(ADIV5_AP_TAR, nx), Rd(ADIV5_AP_DRW)>> ELSE <<>>)
             \o ExpectedDataReads(nx, unit, left - 1)

\* the register accesses of adiv5_mem_read(src, len); the CSW write is
\* adiv5_ap_write, that is the bank selection followed by the register write
ExpectedReadLog(apsel, apcsw, a, n) ==
    LET al    == PolicyAlign(a, n)
        count == n \div Pow2(al)
    IN  <<Wr(ADIV5_DP_SELECT, W(apsel * 256, 0)),
          Wr(ADIV5_AP_CSW, W(Hi(apcsw), Lo(apcsw) + 16 + al)),
          Wr(ADIV5_AP_TAR, a),
          Rd(ADIV5_AP_DRW)>>
        \o ExpectedDataReads(a, Pow2(al), count - 1)
        \o <<Rd(ADIV5_DP_RDBUFF)>>

\* C9: adiv5_mem_read issues the CSW write, the TAR write of src, one
\* priming DRW read, count - 1 data DRW reads and last one RDBUFF read, each
\* boundary crossing adding one TAR write and one priming DRW read, and
\* accesses nothing else.
C9_ReadSequence ==
    (mpc = "r_done" /\ xfer.len > 0) =>
        [k \in 1 .. Len(log) |->
            [rnw |-> log[k].rnw, addr |-> log[k].addr, value |-> log[k].value]]
          = ExpectedReadLog(memap.apsel, memap.csw, xfer.addr, xfer.len)

\* mem_read(0x20000FFC, 16): TAR rewritten to 0x20001000 after the first
\* data read
C9_Witness ==
    /\ mpc = "r_done"
    /\ xfer.addr = W(\h2000, \h0FFC)
    /\ xfer.len = 16
    /\ Len(log) = 10
    /\ log[5] = LogEntry("R", ADIV5_AP_DRW, ZeroW, W(\h2000, \h0FFC))
    /\ IsTarWrite(log[6])
    /\ log[6].value = W(\h2000, \h1000)

\* C10: the transfer unit of adiv5_mem_read and adiv5_mem_write is
\* min(align_of(addr), align_of(len)); the number of units times the unit
\* size is len and every unit address is a multiple of the unit size.
C10_AlignPolicy ==
    mpc # "idle" =>
        /\ align = PolicyAlign(xfer.addr, xfer.len)
        /\ xfer.count * UnitSize(align) = xfer.len
        /\ \A k \in 1 .. Len(log) :
              IsDrw(log[k]) => Lo(log[k].unit) % UnitSize(align) = 0

\* 6 bytes from 0x20000FFE: three halfwords read and written back
C10_Witness ==
    /\ mpc = "w_done"
    /\ xfer.addr = W(\h2000, \h0FFE)
    /\ xfer.len = 6
    /\ align = ALIGN_HALFWORD
    /\ xfer.count = 3

\* ------------------------------------------------------------------------
\* Properties of the stored CSW value and of the bank selection
\* ------------------------------------------------------------------------
\* bits [2:0] SIZE, [5:4] ADDRINC and bit 7 TRINPROG of a CSW value
CswTransferBits(c) == (Lo(c) % 8) + (((Lo(c) \div 16) % 4) * 16) + (((Lo(c) \div 128) % 2) * 128)

IsCswWrite(e) == e.rnw = "W" /\ e.addr = ADIV5_AP_CSW

\* C11: the csw value stored in the AP has SIZE, ADDRINC and TRINPROG clear,
\* no step of a memory read or write changes it, and every CSW register
\* write of a sized transfer is stored csw | single-increment | size.
C11_StoredCsw ==
    /\ [](/\ CswTransferBits(memap.csw) = 0
          /\ \A k \in 1 .. Len(log) :
                IsCswWrite(log[k]) =>
                    log[k].value = W(Hi(memap.csw),
                                     Lo(memap.csw) + 16
                                       + PolicyAlign(xfer.addr, xfer.len)))
    /\ [][memap' = memap]_vars

\* the CSW register had TRINPROG, SIZE and ADDRINC set when adiv5_new_ap read
\* it; a halfword transfer has written CSW
C11_Witness ==
    /\ memap.csw = W(\h0300, \h0040)
    /\ align = ALIGN_HALFWORD
    /\ \E k \in 1 .. Len(log) :
        IsCswWrite(log[k]) /\ log[k].value = W(\h0300, \h0051)

\* (apsel << 24) | (addr & 0xF0)
PolicySelect(apsel, addr) == W(apsel * 256, ((addr % 256) \div 16) * 16)

IsSelectWrite(e) == e.rnw = "W" /\ e.addr = ADIV5_DP_SELECT

IsApAccess(e) == e.addr >= 256

\* C12: every AP register access is preceded by a SELECT write, and the
\* most recent one carries the apsel of the AP and the bank of the register
\* accessed.
C12_SelectBeforeAccess ==
    \A k \in 1 .. Len(log) :
        IsApAccess(log[k]) =>
            \E j \in 1 .. (k - 1) :
                /\ IsSelectWrite(log[j])
                /\ \A m \in (j + 1) .. (k - 1) : ~IsSelectWrite(log[m])
                /\ log[j].value = PolicySelect(memap.apsel, log[k].addr)

\* adiv5_ap_read(ap, ADIV5_AP_IDR) on AP 1: bank 0xF0 of AP 1 selected, then
\* the register read
C12_Witness ==
    /\ memap.apsel = 1
    /\ Len(log) = 2
    /\ log[1] = LogEntry("W", ADIV5_DP_SELECT, W(\h0100, \h00F0), ZeroW)
    /\ log[2].rnw = "R"
    /\ log[2].addr = ADIV5_AP_IDR

\* ------------------------------------------------------------------------
\* Properties of adiv5_component_probe
\* ------------------------------------------------------------------------
\* C13: the recursion over ROM tables is finite: no activation is for a
\* table that an enclosing activation is walking.  The walk is a function of
\* target memory, so such an activation repeats the enclosing one's
\* recursion, one level deeper each time, and the probe never returns.
C13_RecursionFinite ==
    \A j, k \in 1 .. Len(stack) :
        j < k => stack[j].addr # stack[k].addr

\* the activation that returned last passed the fault and preamble checks
Examined(f) ==
    /\ f.stage = "ret"
    /\ ~f.fault
    /\ Hi(f.cidr) = \hB105
    /\ Lo(f.cidr) % 4096 = \h00D

ClassOf(f) == Lo(f.cidr) \div 4096

\* the index of the first zero entry of a table, 960 if there is none
RECURSIVE FirstZero(_, _)
FirstZero(comp, k) ==
    IF k = 960 \/ RomEntry(comp, k) = ZeroW THEN k ELSE FirstZero(comp, k + 1)

\* the entries a walk of the table reads
EntriesRead(comp) ==
    LET z == FirstZero(comp, 0) IN IF z = 960 THEN 960 ELSE z + 1

\* (addr + (entry & 0xFFFFF000)) mod 2^32
PolicyTarget(addr, entry) ==
    LET lo == Lo(addr) + (Lo(entry) - (Lo(entry) % 4096))
    IN  W((Hi(addr) + Hi(entry) + (lo \div 65536)) % 65536, lo % 65536)

\* C14: a ROM table is read entry by entry up to the first zero entry or
\* for 960 entries; the recursive calls are exactly those for the entries
\* read that have PRESENT set, in order, at addr + (entry & 0xFFFFF000) and
\* depth + 1; the result is true iff one of them returned true.  (Of the
\* walks whose entry reads raised no DP error, so that the words read are
\* the words of the table.)
C14_RomTableWalk ==
    (Examined(cret) /\ ClassOf(cret) = 1 /\ ~cret.efault) =>
        LET comp == CompAt(rom, cret.addr)
            n    == EntriesRead(comp)
        IN  /\ cret.nread = n
            /\ {cret.kids[j].num : j \in 1 .. Len(cret.kids)}
                 = {k \in 0 .. (n - 1) : Lo(RomEntry(comp, k)) % 2 = 1}
            /\ \A j \in 1 .. Len(cret.kids) :
                /\ j > 1 => cret.kids[j - 1].num < cret.kids[j].num
                /\ cret.kids[j].addr
                     = PolicyTarget(cret.addr, RomEntry(comp, cret.kids[j].num))
                /\ cret.kids[j].depth = cret.depth + 1
            /\ cret.res = (\E j \in 1 .. Len(cret.kids) : cret.kids[j].res)

\* a table of 960 non-zero entries has been walked: entry 0 and entry 959
\* were present and led to supported cores
C14_Witness ==
    /\ cpc = "done"
    /\ cret.nread = 960
    /\ Len(cret.kids) = 2
    /\ cret.kids[1].num = 0
    /\ cret.kids[2].num = 959
    /\ cret.kids[2].addr = AddrB
    /\ cret.res

\* C15: with a DP error pending after the ID reads, or with a CIDR that is
\* not the preamble, the probe returns false and has read no table entry,
\* made no recursive call and called no core probe.
C15_FaultOrBadPreamble ==
    (/\ cret.stage = "ret"
     /\ \/ cret.fault
        \/ ~(Hi(cret.cidr) = \hB105 /\ Lo(cret.cidr) % 4096 = \h00D))
        => /\ ~cret.res
           /\ cret.nread = 0
           /\ cret.kids = <<>>
           /\ cret.probes = <<>>
           /\ cret.regs = <<>>

\* a DP error on the ID reads of a ROM table that has a present entry
C15_Witness ==
    /\ cret.stage = "ret"
    /\ cret.fault
    /\ cret.addr = RootAddr
    /\ cret.cidr = W(\hB105, \h100D)
    /\ CompAt(rom, RootAddr).head = <<EntryToA>>
    /\ cpc = "done"

\* pidr with bits [31:20] and [11:0] masked off equals 0x4000BB000
ArmBits(pidr) ==
    /\ pidr[1] = W(0, 4)
    /\ Hi(pidr[2]) % 16 = \hB
    /\ Lo(pidr[2]) \div 4096 = \hB

\* pidr with its revision bits [31:20] replaced
WithRev(pidr, rev) == <<pidr[1], W(rev * 16 + (Hi(pidr[2]) % 16), Lo(pidr[2]))>>

\* C16: a component that is not a ROM table and whose pidr, revision and
\* part number masked off, is not 0x4000BB000 is rejected with no probe
\* called; the revision bits do not change whether it is accepted.
C16_LeafNeedsArm ==
    (Examined(cret) /\ ClassOf(cret) # 1) =>
        /\ ~ArmBits(cret.pidr) => (~cret.res /\ cret.probes = <<>>)
        /\ \A rev \in {0, 1, \h0F0, \hFFF} :
              LeafProbe(CompAt(rom, cret.addr), WithRev(cret.pidr, rev), cret.addr)
                = LeafProbe(CompAt(rom, cret.addr), WithRev(cret.pidr, 0), cret.addr)

\* a Cortex-M4 SCS of revision bits 0xA03 has been accepted
C16_Witness ==
    /\ cret.stage = "ret"
    /\ cret.pidr = <<W(0, 4), PidrLo(\hA03, \hBB, \h00C)>>
    /\ cret.res
    /\ cret.probes = <<CortexmProbe(FALSE)>>

\* C17 as stated: the designer check accepts exactly when
\* pidr & 0xFFFFFF000 == 0x4000BB000.
C17_ArmCheckAsStated ==
    (Examined(cret) /\ ClassOf(cret) # 1) =>
        (IsArmDesigned(cret.pidr)
            <=> U64And(cret.pidr, <<W(0, \hF), W(\hFFFF, \hF000)>>)
                  = <<W(0, 4), W(\h000B, \hB000)>>)

\* C17 amended: the designer check accepts exactly when
\* pidr & 0xFFFFFFFF000FF000 == 0x4000BB000: the revision bits [31:20] are
\* ignored and bits [63:36] must be zero.
C17_ArmCheck ==
    (Examined(cret) /\ ClassOf(cret) # 1) =>
        (IsArmDesigned(cret.pidr) <=> ArmBits(cret.pidr))

\* a pidr with bit 40 set and otherwise ARM's code has been rejected
C17_Witness ==
    /\ cret.stage = "ret"
    /\ cret.pidr = <<W(0, \h0104), PidrLo(1, \hBB, \h000)>>
    /\ ~cret.fault
    /\ ~cret.res

\* the rows of the part table for a part number, the end marker excluded
PartRows(pn) ==
    {k \in 1 .. (Len(pidr_pn_bits) - 1) : pidr_pn_bits[k][1] = pn}

FirstOf(S) == CHOOSE k \in S : \A m \in S : k <= m

PartNumberOf(pidr) == Lo(pidr[2]) % 4096

\* C18: a leaf that passes the preamble and designer checks returns true
\* iff its part number is in the part table; it then has called
\* cortexm_probe(ap, false) once for a CortexM row, cortexa_probe(ap, addr)
\* once for a CortexA row and nothing for a NoSupport row, whatever its
\* class; for a part that is not in the table nothing is called.
C18_PartTable ==
    (Examined(cret) /\ ClassOf(cret) # 1 /\ ArmBits(cret.pidr)) =>
        LET rows == PartRows(PartNumberOf(cret.pidr))
        IN  IF rows = {}
            THEN ~cret.res /\ cret.probes = <<>>
            ELSE LET arch == pidr_pn_bits[FirstOf(rows)][2]
                 IN  /\ cret.res
                     /\ arch = "aa_cortexm" =>
                           cret.probes = <<[fn |-> "cortexm_probe",
                                            forced |-> FALSE, base |-> ZeroW]>>
                     /\ arch = "aa_cortexa" =>
                           cret.probes = <<[fn |-> "cortexa_probe",
                                            forced |-> FALSE,
                                            base |-> cret.addr]>>
                     /\ arch = "aa_nosupport" => cret.probes = <<>>

\* a Cortex-A9 debug unit found with the class of a generic IP component
C18_Witness ==
    /\ cret.stage = "ret"
    /\ cret.pidr = <<W(0, 4), PidrLo(0, \hBB, \hC09)>>
    /\ cret.cidr = W(\hB105, \hE00D)
    /\ cret.res
    /\ cret.probes = <<CortexaProbe(RootAddr)>>

\* the architecture adiv5_armv8_probe is to find
V8Arch(comp) ==
    IF (Hi(comp.devarch) \div 16) % 2 = 1
    THEN LET S == {k \in 1 .. (Len(devarch_archid_bits) - 1) :
                     /\ devarch_archid_bits[k][1] = Lo(comp.devarch)
                     /\ devarch_archid_bits[k][2] # "aa_nosupport"}
         IN  IF S = {} THEN "aa_nosupport"
             ELSE devarch_archid_bits[FirstOf(S)][2]
    ELSE LET id == (Lo(comp.devtype) % 16) * 16 + ((Lo(comp.devtype) \div 16) % 16)
             S  == {k \in 1 .. (Len(devtype_id_bits) - 1) :
                     /\ devtype_id_bits[k][1] = id
                     /\ devtype_id_bits[k][2] # "aa_nosupport"}
         IN  IF S = {} THEN "aa_nosupport"
             ELSE devtype_id_bits[FirstOf(S)][2]

\* C19: for a part of architecture V8 the probe reads DEVARCH at 0xFBC and,
\* only if its bit 20 is clear, DEVTYPE at 0xFCC; it calls cortexm_probe or
\* cortexa_probe for the architecture the tables give, nothing for
\* NoSupport, and returns true.
C19_Armv8Probe ==
    (/\ Examined(cret)
     /\ ClassOf(cret) # 1
     /\ ArmBits(cret.pidr)
     /\ PartRows(PartNumberOf(cret.pidr)) # {}
     /\ pidr_pn_bits[FirstOf(PartRows(PartNumberOf(cret.pidr)))][2] = "aa_v8") =>
        LET comp == CompAt(rom, cret.addr)
            arch == V8Arch(comp)
        IN  /\ cret.res
            /\ cret.regs = IF (Hi(comp.devarch) \div 16) % 2 = 1
                           THEN <<\hFBC>> ELSE <<\hFBC, \hFCC>>
            /\ cret.probes
                 = IF arch = "aa_cortexm"
                   THEN <<[fn |-> "cortexm_probe", forced |-> FALSE,
                           base |-> ZeroW]>>
                   ELSE IF arch = "aa_cortexa"
                   THEN <<[fn |-> "cortexa_probe", forced |-> FALSE,
                           base |-> cret.addr]>>
                   ELSE <<>>

\* a Cortex-M33 part whose DEVARCH names the v8.0-A debug architecture
C19_Witness ==
    /\ cret.stage = "ret"
    /\ PartNumberOf(cret.pidr) = \hD21
    /\ CompAt(rom, cret.addr).devarch = W(\h4770, \h6A15)
    /\ cret.regs = <<DEVARCH_OFFSET>>
    /\ cret.probes = <<CortexaProbe(RootAddr)>>
    /\ cret.res

\* ------------------------------------------------------------------------
\* Properties of the forced Cortex-M probe
\* ------------------------------------------------------------------------
\* adiv5_component_probe has run on the AP
Discovered(a) == apDisc[a] \in {"found", "forced", "nocomp"}

IdcodeIsCortexM == Lo(idcode) % 4096 = \h477

\* C20 as stated: every MEM-AP with a present debug BASE on which
\* adiv5_component_probe returned false gets cortexm_probe(ap, true) exactly
\* when the low 12 bits of the DP idcode are 0x477, whatever was found on the
\* APs before it.
C20_ForcedProbeEveryAp ==
    \A a \in Apsels :
        (Discovered(a) /\ apDisc[a] # "found") =>
            (apDisc[a] = "forced" <=> IdcodeIsCortexM)

\* C20 amended: cortexm_probe(ap, true) is called for a MEM-AP with a
\* present debug BASE exactly when adiv5_component_probe returned false on
\* it and on every AP probed before it, no forced probe was made before on
\* this DP and the low 12 bits of the DP idcode are 0x477; never for an AP
\* on which discovery returned true.
C20_ForcedProbeOncePerDp ==
    \A a \in Apsels :
        Discovered(a) =>
            (apDisc[a] = "forced"
                <=> /\ apDisc[a] # "found"
                    /\ \A b \in Apsels : b < a => apDisc[b] \notin {"found", "forced"}
                    /\ IdcodeIsCortexM)

\* discovery found a core on AP 0 and nothing on AP 1; AP 1 was not probed
C20_Witness ==
    /\ IdcodeIsCortexM
    /\ apDisc[0] = "found"
    /\ apDisc[1] = "nocomp"
    /\ pc = "returned"

\* ------------------------------------------------------------------------
\* AP enumeration: where it stops
\* ------------------------------------------------------------------------
\* no AP was created at apsel j
Void(j) == j \notin Apsels \/ apState[j] = "none"

\* C21: enumeration stops for absent APs only after eight consecutive
\* absent apsel values: at the loop head with 0 < i < 256, unless the eight
\* apsel values before i were all absent, apsel i is probed
C21_StopsAfterEightConsecutive ==
    (/\ pc = "loop"
     /\ i > 0
     /\ i < MaxApsel
     /\ ~(\A j \in (i - MaxVoidAps) .. (i - 1) : j >= 0 /\ Void(j)))
        => EnumContinues

\* adiv5_new_ap has just returned an AP for apsel i
NewApReturned == ev.op = "new_ap" /\ ev.res = "ap"

\* C22: enumeration stops on a duplicate BASE at apsel i exactly when the
\* AP at apsel i - 1 was created and has the BASE of the new AP
C22_DuplicateOfPreceding ==
    NewApReturned =>
        ((pc = "returned") <=>
            (/\ i > 0
             /\ ~Void(i - 1)
             /\ apBase[i - 1] = apBase[i]))

\* C26: when the allocation fails for an apsel with a non-zero IDR, the
\* enumeration goes on with the next apsel and dp.refcnt is unchanged
C26_AllocFailureSkips ==
    [][(ev'.op = "new_ap" /\ ev'.res = "null_malloc" /\ pc = "loop")
        => (pc' = "loop" /\ i' = i + 1 /\ dpRefcnt' = dpRefcnt)]_vars

\* ------------------------------------------------------------------------
\* The power-up and reset sequence
\* ------------------------------------------------------------------------
IsCtrlstatRead(e) == e.op = "read" /\ e.reg = ADIV5_DP_CTRLSTAT

IsCtrlstatWrite(e) == e.op = "write" /\ e.reg = ADIV5_DP_CTRLSTAT

IsDapAbort(e) ==
    e.op = "write" /\ e.reg = ADIV5_DP_ABORT /\ e.val = W(0, 1)

HasBits(v, hi) == BitAnd(Hi(v), hi) = hi

\* the log position of the first CTRL/STAT write, 0 when there is none
FirstCtrlstatWrite ==
    IF \E k \in 1 .. Len(dplog) : IsCtrlstatWrite(dplog[k])
    THEN CHOOSE k \in 1 .. Len(dplog) :
            /\ IsCtrlstatWrite(dplog[k])
            /\ \A m \in 1 .. (k - 1) : ~IsCtrlstatWrite(dplog[m])
    ELSE 0

AfterFirstRead ==
    pc \in {"pwrreq", "pwrwait", "rstreq", "rstwait", "rstrel", "relwait",
            "dpidr", "enum"}

\* C23: ABORT is written with DAPABORT exactly once, followed by exactly
\* one more CTRL/STAT read, if and only if the first CTRL/STAT read raised a
\* timeout; otherwise no ABORT is written; either way the next CTRL/STAT
\* write is the power-up request
C23_AbortOnTimeoutOnly ==
    AfterFirstRead =>
        LET aborts == {k \in 1 .. Len(dplog) : IsDapAbort(dplog[k])}
            w      == FirstCtrlstatWrite
            reads  == IF dplog[1].fault THEN 2 ELSE 1
        IN  /\ IsCtrlstatRead(dplog[1])
            /\ \A k \in 2 .. Len(dplog) : ~dplog[k].fault
            /\ IF dplog[1].fault
               THEN /\ aborts = {2}
                    /\ IsCtrlstatRead(dplog[3])
               ELSE aborts = {}
            /\ (pc # "pwrreq") =>
                  /\ w = 2 * reads
                  /\ HasBits(dplog[w].val, \h5000)
                  /\ dplog[w].val = U32Or(dplog[w - 1].val, W(\h5000, 0))

\* C23 witness: the first read timed out and the power-up request followed
\* the abort and the second read
C23_Witness ==
    /\ pc = "pwrwait"
    /\ Len(dplog) = 4
    /\ dplog[1].fault
    /\ IsDapAbort(dplog[2])
    /\ IsCtrlstatWrite(dplog[4])

\* C24: the debug-reset request is written only after a CTRL/STAT read has
\* returned CSYSPWRUPACK and CDBGPWRUPACK together, and the wait for them
\* ends on nothing else: a read without both leaves dp_init waiting
C24_ResetAfterPowerAck ==
    /\ [](\A k \in 1 .. Len(dplog) :
            (IsCtrlstatWrite(dplog[k]) /\ HasBits(dplog[k].val, \h0400))
                => /\ k > 1
                   /\ IsCtrlstatRead(dplog[k - 1])
                   /\ HasBits(dplog[k - 1].val, \hA000))
    /\ [](pc \in {"rstreq", "rstwait", "rstrel", "relwait", "dpidr", "enum"}
            => \E k \in 1 .. Len(dplog) :
                 IsCtrlstatRead(dplog[k]) /\ HasBits(dplog[k].val, \hA000))
    /\ [][(pc = "pwrwait" /\ ~HasBits(ctrlstat', \hA000)) => pc' = "pwrwait"]_vars

\* C24 witness: the wait has polled more than once before the request
C24_Witness ==
    /\ pc = "rstwait"
    /\ PollsSince(SubSeq(dplog, 1, Len(dplog) - 1)) = 2
    /\ ~HasBits(dplog[Len(dplog) - 2].val, \hA000)

ResetRequested(k) ==
    IsCtrlstatWrite(dplog[k]) /\ HasBits(dplog[k].val, \h0400)

ResetReleased(k) ==
    IsCtrlstatWrite(dplog[k]) /\ BitAnd(Hi(dplog[k].val), \h0400) = 0

\* C25: once power-up is acknowledged dp_init reaches the DPIDR read and the
\* enumeration whatever CDBGRSTACK does, given that the timeouts expire, and
\* the reset request is followed by a CTRL/STAT write with CDBGRSTREQ clear
C25_ResetNonFatal ==
    /\ (pc = "rstreq") ~> (pc = "loop")
    /\ [](pc \in {"relwait", "dpidr", "enum"} =>
            \E k \in 1 .. Len(dplog) :
                /\ ResetRequested(k)
                /\ \E m \in (k + 1) .. Len(dplog) : ResetReleased(m))

\* C25 witness: the DPIDR was read although no read returned CDBGRSTACK
C25_Witness ==
    /\ pc = "enum"
    /\ \A k \in 1 .. Len(dplog) :
            IsCtrlstatRead(dplog[k]) => ~HasBits(dplog[k].val, \h0800)
    /\ \E k \in 1 .. Len(dplog) :
            dplog[k].op = "read" /\ dplog[k].reg = ADIV5_DP_IDCODE


\* ------------------------------------------------------------------------
\* EFM32 probe and page erase
\* ------------------------------------------------------------------------
\* the rows of the device table with family id fam
FamilyHits(fam) ==
    {k \in 1 .. efm32_devices_nb : efm32_devices[k].family_id = fam}

\* C27: efm32_probe chooses schema 3 for idcode 0x2BA01477, 2 for
\* 0x0BC11477 and 4 for 0x6BA02477; for any other idcode, or when the part
\* family read under that schema is in no row of the table, it returns
\* false and the target keeps its driver, options, RAM, flash and commands
C27_ProbeSchemaAndReject ==
    pev.ret # "none" =>
        /\ pev.idcode = W(\h2BA0, \h1477) => pev.di = 3
        /\ pev.idcode = W(\h0BC1, \h1477) => pev.di = 2
        /\ pev.idcode = W(\h6BA0, \h2477) => pev.di = 4
        /\ (\/ pev.idcode \notin {W(\h2BA0, \h1477), W(\h0BC1, \h1477),
                                  W(\h6BA0, \h2477)}
            \/ FamilyHits(efm32_read_part_family(pev.part, pev.di)) = {})
                => /\ pev.ret = "false"
                   /\ tgt = CortexmTarget

\* C27 witness: a Cortex-M33 idcode whose part family is in no row is
\* rejected
C27_Witness ==
    /\ pev.ret = "false"
    /\ pev.idcode = W(\h6BA0, \h2477)
    /\ FamilyHits(efm32_read_part_family(pev.part, 4)) = {}
    /\ tgt = CortexmTarget

\* C28: for every schema version and every index of the table the driver
\* tag decodes back: byte 0 minus 48 is the schema version, byte 2 minus 32
\* the device index, efm32_get_device of it the matched row, and the erase
\* runs on that row's MSC base (the tags of all versions and indices are
\* decoded in the state before the probe, the probed one in every state)
C28_TagRoundTrip ==
    /\ pev.ret = "none" =>
        \A v \in 1 .. 4, k \in 0 .. (efm32_devices_nb - 1) :
        /\ TagDiVersion(DriverTag(v, k)) = v
        /\ TagDeviceIndex(DriverTag(v, k)) = k
        /\ efm32_get_device(TagDeviceIndex(DriverTag(v, k)))
               = efm32_devices[k + 1]
    /\ pev.ret = "true" =>
        /\ TagDiVersion(tgt.driver) = pev.di
        /\ TagDeviceIndex(tgt.driver) = pev.index
        /\ pev.index + 1 \in
               FamilyHits(efm32_read_part_family(pev.part, pev.di))
        /\ efm32_get_device(TagDeviceIndex(tgt.driver))
               = efm32_devices[pev.index + 1]
        /\ er.pc # "idle" => er.msc = efm32_devices[pev.index + 1].msc_addr

\* C28 witness: an erase under way on a device probed with schema 2 from
\* the far end of the table
C28_Witness ==
    /\ pev.ret = "true"
    /\ pev.di = 2
    /\ pev.index > 40
    /\ er.pc = "poll"

\* the writes among entries 3 .. j of the erase log
WritesUpTo(j) == Cardinality({m \in 3 .. j : elog[m].op = "write"})

\* the w-th write of the page loop: page (w - 1) \div 3, step (w - 1) % 3
ExpectedWrite(w) ==
    LET k == (w - 1) \div 3
        r == (w - 1) % 3
    IN  IF r = 0
        THEN MscWr(EFM32_MSC_ADDRB(er.msc),
                   U32Add(er.addr0, k * er.blocksize))
        ELSE IF r = 1
        THEN MscWr(EFM32_MSC_WRITECMD(er.msc), EFM32_MSC_WRITECMD_LADDRIM)
        ELSE MscWr(EFM32_MSC_WRITECMD(er.msc), EFM32_MSC_WRITECMD_ERASEPAGE)

\* the ERASEPAGE commands in the erase log
ErasePages ==
    Cardinality({m \in 1 .. Len(elog) :
        elog[m] = MscWr(EFM32_MSC_WRITECMD(er.msc),
                        EFM32_MSC_WRITECMD_ERASEPAGE)})

CeilDiv(a, b) == (a + b - 1) \div b

\* entry e is a STATUS read
StatusRead(e) == e.op = "read" /\ e.addr = EFM32_MSC_STATUS(er.msc)

\* entry e is a STATUS read that shows BUSY clear
BusyClear(e) ==
    StatusRead(e) /\ U32And(e.val, EFM32_MSC_STATUS_BUSY) = ZeroW

\* C29: for len > 0 the erase writes LOCK <- 0x1B71 and WRITECTRL <- 1 once
\* each, then page by page ADDRB <- addr + k * blocksize, LADDRIM,
\* ERASEPAGE; a next page, or the return of 0, comes only after a STATUS
\* read showed BUSY clear; ceil(len / blocksize) ERASEPAGE when it returns 0
C29_EraseSequence ==
    (er.pc # "idle" /\ er.ret # "true" /\ er.len0 > 0) =>
        /\ Len(elog) >= 2
        /\ elog[1] = MscWr(EFM32_MSC_LOCK(er.msc), EFM32_MSC_LOCK_LOCKKEY)
        /\ elog[2] = MscWr(EFM32_MSC_WRITECTRL(er.msc), W(0, 1))
        /\ \A j \in 3 .. Len(elog) :
            /\ elog[j].addr \notin {EFM32_MSC_LOCK(er.msc),
                                    EFM32_MSC_WRITECTRL(er.msc)}
            /\ IF elog[j].op = "write"
               THEN /\ elog[j] = ExpectedWrite(WritesUpTo(j))
                    /\ (WritesUpTo(j) > 1 /\ (WritesUpTo(j) - 1) % 3 = 0)
                           => BusyClear(elog[j - 1])
               ELSE /\ StatusRead(elog[j])
                    /\ WritesUpTo(j) > 0
                    /\ WritesUpTo(j) % 3 = 0
        /\ ErasePages <= CeilDiv(er.len0, er.blocksize)
        /\ er.ret = "0" =>
            /\ ErasePages = CeilDiv(er.len0, er.blocksize)
            /\ BusyClear(elog[Len(elog)])

\* C29 witness: the longest erase returned 0 after a poll that saw BUSY
C29_Witness ==
    /\ er.ret = "0"
    /\ er.len0 = MaxPages * er.blocksize
    /\ ErasePages = MaxPages
    /\ \E m \in 1 .. Len(elog) : StatusRead(elog[m]) /\ ~BusyClear(elog[m])

\* what holds of the result of efm32_flash_erase in every state
EraseResult ==
    /\ er.pc = "done" => er.ret \in {"0", "-1"}
    /\ er.err => er.ret = "-1"
    /\ er.ret = "-1" =>
        /\ er.err
        /\ StatusRead(elog[Len(elog)])
        /\ ~BusyClear(elog[Len(elog)])
    /\ er.ret = "0" =>
        /\ ~er.err
        /\ er.len0 > 0 => BusyClear(elog[Len(elog)])
        /\ \A m \in 1 .. Len(elog) :
               elog[m] = MscWr(EFM32_MSC_WRITECMD(er.msc),
                               EFM32_MSC_WRITECMD_ERASEPAGE)
                   => \E q \in (m + 1) .. Len(elog) : BusyClear(elog[q])

\* C30: efm32_flash_erase returns 0 when every page's poll ended with BUSY
\* clear, -1 when target_check_error reported an error during a poll, and
\* nothing else; after the error it writes no register and erases no page
C30_EraseResult ==
    /\ []EraseResult
    /\ [][er.ret = "-1" => (elog' = elog /\ er' = er)]_vars

\* C30 witness: the error came in the poll of the second page
C30_Witness ==
    /\ er.ret = "-1"
    /\ er.err
    /\ ErasePages = 2


\* C38: after every successful efm32_probe the schema version in byte 0 of
\* the driver tag is the di_version of the table row whose index is in
\* byte 2
C38_TagVersionIsRowVersion ==
    pev.ret = "true" =>
        TagDiVersion(tgt.driver)
            = efm32_get_device(TagDeviceIndex(tgt.driver)).di_version

\* ------------------------------------------------------------------------
\* The references that targets hold on an AP
\* ------------------------------------------------------------------------
\* C34: an AP that a target holds with its own reference is never freed
\* while the target exists, whatever the IDR and BASE of the AP
C34_HeldApNotFreed ==
    \A a \in Apsels :
        (IsEfm32Aap(apIdr[a]) /\ tgtRef[a] > 0) => apState[a] # "freed"

\* C35: ap.refcnt is never negative
C35_RefcntNonNegative ==
    \A a \in Apsels : apRefcnt[a] >= 0


\* ------------------------------------------------------------------------
\* DP errors on the reads of ROM table entries
\* ------------------------------------------------------------------------
\* C36: an entry whose read raised a DP error is not interpreted: no
\* activation of adiv5_component_probe was called for such an entry
C36_FaultedEntryNotInterpreted ==
    \A k \in 1 .. Len(stack) : ~stack[k].via


\* ------------------------------------------------------------------------
\* EFM32 BUSY polls and mass erase
\* ------------------------------------------------------------------------
\* C31: every MSC BUSY poll is bounded by a deadline: a poll step taken
\* after the deadline has passed ends the poll, whether or not STATUS still
\* shows BUSY and without a transport error
C31_PollBoundedByDeadline ==
    [][/\ (late /\ er.pc = "poll") => er'.pc # "poll"
       /\ (late /\ ea.pc = "poll") => ea'.pc # "poll"]_vars

\* the positions in the log of efm32_cmd_erase_all that hold entry e
EraseAllAt(e) == {m \in 1 .. Len(ealog) : ealog[m] = e}

\* the writes of efm32_cmd_erase_all to MASSLOCK and of ERASEMAIN0
MassUnlock == MscWr(EFM32_MSC_MASSLOCK(ea.msc), EFM32_MSC_MASSLOCK_LOCKKEY)

MassRelock == MscWr(EFM32_MSC_MASSLOCK(ea.msc), ZeroW)

MassErase ==
    MscWr(EFM32_MSC_WRITECMD(ea.msc), EFM32_MSC_WRITECMD_ERASEMAIN0)

\* C32: efm32_cmd_erase_all writes MASSLOCK <- 0x631A before WRITECMD <-
\* ERASEMAIN0, writes no MSC register between that command and a STATUS
\* read showing BUSY clear, and has written MASSLOCK <- 0 whenever it
\* returns after the unlock, with or without an error
C32_MassEraseRelocks ==
    /\ \A m \in EraseAllAt(MassErase) :
        /\ \E u \in EraseAllAt(MassUnlock) : u < m
        /\ \A w \in (m + 1) .. Len(ealog) :
            ealog[w].op = "write" =>
                \E q \in (m + 1) .. (w - 1) :
                    /\ ealog[q].op = "read"
                    /\ ealog[q].addr = EFM32_MSC_STATUS(ea.msc)
                    /\ ~IsBusy(ealog[q].val)
    /\ (ea.pc = "done" /\ EraseAllAt(MassUnlock) # {}) =>
        \E u \in EraseAllAt(MassUnlock), r \in EraseAllAt(MassRelock) : u < r


\* ------------------------------------------------------------------------
\* EFM32 AAP: erase_mass
\* ------------------------------------------------------------------------
\* the writes in the log of efm32_aap_cmd_device_erase, in order
AapWrites == SelectSeq(aelog, LAMBDA e : e.op = "write")

\* the positions of the log that hold the write of 1 to AAP_CMD
AapCmdAt == {m \in 1 .. Len(aelog) : aelog[m] = ApWr(AAP_CMD, W(0, 1))}

\* position m of the log is a read of STATUS that shows ERASEBUSY clear
AapBusyClearAt(m) ==
    /\ aelog[m].op = "read"
    /\ aelog[m].reg = AAP_STATUS
    /\ U32And(aelog[m].val, AAP_STATUS_ERASEBUSY) = ZeroW

\* erase_mass has been entered and its first read of STATUS showed
\* ERASEBUSY set, or clear
AapEnteredBusy == aelog # <<>> /\ ~AapBusyClearAt(1)

AapEnteredClear == aelog # <<>> /\ AapBusyClearAt(1)

\* what holds of erase_mass in every state when it was entered with
\* ERASEBUSY clear
AapEraseOrder ==
    AapEnteredClear =>
        /\ \/ AapWrites = <<>>
           \/ AapWrites = <<ApWr(AAP_CMDKEY, CMDKEY)>>
           \/ AapWrites = <<ApWr(AAP_CMDKEY, CMDKEY), ApWr(AAP_CMD, W(0, 1))>>
        /\ ae.pc \in {"poll", "final", "done"} => Len(AapWrites) = 2
        /\ ae.pc \in {"final", "done"} =>
            /\ ae.pc = "done" => ae.ret = "true"
            /\ \E m \in AapCmdAt, q \in 1 .. Len(aelog) :
                /\ m < q
                /\ AapBusyClearAt(q)
                /\ \A j \in (m + 1) .. (q - 1) : ~AapBusyClearAt(j)
                /\ Len(aelog) <= q + 1

\* C33: entered with ERASEBUSY clear, erase_mass writes CMDKEY <-
\* 0xCFACC118 and then CMD <- 1, once each, and returns success only after
\* a read of STATUS made after the CMD write showed ERASEBUSY clear; a poll
\* that reads ERASEBUSY set stays in the poll, there being no deadline
C33_AapEraseSequence ==
    /\ []AapEraseOrder
    /\ [][(/\ ae.pc = "poll"
           /\ aelog' # aelog
           /\ U32And(aelog'[Len(aelog')].val, AAP_STATUS_ERASEBUSY) # ZeroW)
          => (ae'.pc = "poll" /\ ae'.ret = "none")]_vars

\* C33 witness: success after a poll that saw ERASEBUSY set
C33_Witness ==
    /\ ae.ret = "true"
    /\ \E m \in AapCmdAt : ~AapBusyClearAt(m + 1)

\* C37: erase_mass called while ERASEBUSY is set returns false and writes
\* neither CMDKEY nor CMD
C37_AapBusyAtEntry ==
    AapEnteredBusy =>
        /\ ae.pc = "done"
        /\ ae.ret = "false"
        /\ AapWrites = <<>>
        /\ Len(aelog) = 1

\* C37 witness: the call found ERASEBUSY and LOCKED set
C37_Witness ==
    /\ ae.ret = "false"
    /\ aelog = <<ApRd(AAP_STATUS, W(0, 3))>>

====
